---- MODULE Spec2Model ----
(***************************************************************************)
(* Incident detection pipeline and incident registry of the AI             *)
(* observability service (app/services/incident_analyzer.py, with the LLM  *)
(* collaborator of app/services/ollama_trainer.py), and its OTLP receiver  *)
(* (app/services/otel_receiver.py).                                        *)
(*                                                                         *)
(* Python dicts are modelled as functions on string keys: a key is present *)
(* iff it is in the DOMAIN, so "absent" is a fact about the dict, not a    *)
(* sentinel value.  Time is the wall clock in whole minutes.               *)
(*                                                                         *)
(* Specifications:                                                         *)
(*   SpecAdmit    the registry: admission filter, prune-on-read, clock     *)
(*   SpecConc     the registry under unsynchronised parallel callers       *)
(*   SpecEnrich   the enrichment loop over a candidate list                *)
(*   SpecLogGroup _analyze_service_logs on one group of logs               *)
(*   SpecLogs     _analyze_logs_for_incidents on a batch of logs           *)
(*   SpecTraces   _analyze_service_traces on one group of spans            *)
(*   Spec         analyze_realtime_data end to end, with reads             *)
(*   SpecMetricGroup  the metric rules on one group of points              *)
(*   SpecTimestamp    _parse_timestamp on one timeUnixNano value           *)
(*   SpecDecode   the OTLP decoders on one payload, decoded twice          *)
(*   SpecReceiver one request to the OTLP receiver, and registry reads     *)
(*   SpecStats    get_incident_statistics on the registry                  *)
(*   SpecRegistry admissions, reads and statistics on one registry         *)
(*   SpecMetrics  _analyze_metrics_for_anomalies on a batch of points      *)
(*   SpecLogBody  _parse_log_body on one log record                        *)
(***************************************************************************)
EXTENDS Integers, Sequences, FiniteSets, TLC

VARIABLES
    now,               \* datetime.now(), in minutes
    active_incidents,  \* IncidentAnalyzer.active_incidents
    pc,                \* the handler that returned last, or the position inside one
    input,             \* the arguments of the call under analysis
    output,            \* the value the last call returned
    local,             \* the locals of a handler in progress
    hist               \* history kept for the properties (not program state)

vars == <<now, active_incidents, pc, input, output, local, hist>>

-----------------------------------------------------------------------------
(* Bounds of the model.                                                    *)

MaxNow == 122
MaxRegistry == 2
MaxCands == 2

-----------------------------------------------------------------------------
(* Dicts and sequences.                                                    *)

\* dict.get(key, default)
Get(d, key, default) == IF key \in DOMAIN d THEN d[key] ELSE default

\* dict.copy() followed by d[key] = value
Put(d, key, value) ==
    [k \in DOMAIN d \cup {key} |-> IF k = key THEN value ELSE d[k]]

Range(s) == {s[i] : i \in 1..Len(s)}

RECURSIVE SumSeq(_)
SumSeq(s) == IF s = <<>> THEN 0 ELSE Head(s) + SumSeq(Tail(s))

\* All sequences over S of length lo..hi.
SeqsOf(S, lo, hi) == UNION {[1..n -> S] : n \in lo..hi}

-----------------------------------------------------------------------------
(* The registry: incident_analyzer.py, lines 90-96 and 433-442.            *)

\* timedelta(hours=1), in minutes
Window == 60

\* datetime.min, the default of inc.get('timestamp', datetime.min)
DatetimeMin == -1000000

SignificantSeverities_Low == {"low", "medium", "high", "critical"}

\* the list literal ['medium', 'high', 'critical'] of the admission filter
SignificantSeverities == {"medium", "high", "critical"}

IsSignificant(inc) == Get(inc, "severity", "low") \in SignificantSeverities

\* significant_incidents = [inc for inc in enriched_incidents if ...]
SignificantIncidents(enriched) == SelectSeq(enriched, IsSignificant)

NotExpired_NonStrict(inc, t) == Get(inc, "timestamp", DatetimeMin) >= t - Window

\* inc.get('timestamp', datetime.min) > cutoff_time
NotExpired(inc, t) == Get(inc, "timestamp", DatetimeMin) > t - Window

\* the unexpired incidents, newest first
ActiveList_NewestFirst(stored, t) ==
    LET Keep(inc) == NotExpired(inc, t)
        kept == SelectSeq(stored, Keep)
    IN  [i \in 1..Len(kept) |-> kept[Len(kept) + 1 - i]]

\* get_active_incidents: the filtered list, which is also stored back
ActiveList(stored, t) ==
    LET Keep(inc) == NotExpired(inc, t) IN SelectSeq(stored, Keep)

-----------------------------------------------------------------------------
(* History variable.                                                       *)

Hist0 ==
    [last_read |-> -1,         \* the time of the last read, -1 before the first
     gap |-> -1,                \* minutes between the last two reads when no
                               \* admission came between them, else -1
     admit_pending |-> FALSE,  \* an admission happened since the last read
     evicted |-> 0,            \* how many incidents the last read removed
     low_discarded |-> FALSE]  \* some admission was handed a low/missing severity

-----------------------------------------------------------------------------
(* SpecAdmit: the registry operations on candidate lists.  The candidates  *)
(* range over the whole Incident data model (severity low, or missing,     *)
(* included), which covers every list the rule evaluator can hand over.    *)

CandTypes == {"log_errors"}
CandSeverities == {"low", "medium", "high", "critical"}

CandDicts(t) ==
    {[type |-> ty, service |-> "svc", severity |-> sv, timestamp |-> t] :
        ty \in CandTypes, sv \in CandSeverities}
    \cup {[type |-> ty, service |-> "svc", timestamp |-> t] : ty \in CandTypes}

InitAdmit ==
    /\ now = 0
    /\ active_incidents = <<>>
    /\ pc = "idle"
    /\ input = <<>>
    /\ output = <<>>
    /\ local = <<>>
    /\ hist = Hist0

\* a list.extend that skips the items the list holds already
Extend_Unique(stored, items) ==
    LET RECURSIVE Go(_, _)
        Go(acc, rest) ==
            IF rest = <<>> THEN acc
            ELSE Go(IF \E i \in 1..Len(acc) : acc[i] = Head(rest)
                    THEN acc ELSE Append(acc, Head(rest)), Tail(rest))
    IN  Go(stored, items)

\* self.active_incidents.extend(significant_incidents), line 93
Extend(stored, items) == stored \o items

\* analyze_realtime_data, lines 90-96, on an enriched candidate list;
\* recorded is what the step leaves in input
AdmitRecording(enriched, recorded) ==
    LET significant_incidents == SignificantIncidents(enriched) IN
    /\ Len(active_incidents) + Len(significant_incidents) <= MaxRegistry
    /\ active_incidents' = Extend(active_incidents, significant_incidents)
    /\ output' = significant_incidents
    /\ input' = recorded
    /\ pc' = "analyze_realtime_data"
    /\ hist' = [hist EXCEPT
                  !.admit_pending = TRUE,
                  !.low_discarded = @ \/ (\E i \in 1..Len(enriched) :
                                            ~IsSignificant(enriched[i]))]
    /\ UNCHANGED <<now, local>>

Admit(enriched) == AdmitRecording(enriched, <<>>)

AdmitAny == \E enriched \in SeqsOf(CandDicts(now), 1, MaxCands) : Admit(enriched)

\* get_active_incidents, lines 433-442
Read ==
    /\ active_incidents' = ActiveList(active_incidents, now)
    /\ output' = active_incidents'
    /\ input' = <<>>
    /\ pc' = "get_active_incidents"
    /\ hist' = [hist EXCEPT
                  !.last_read = now,
                  !.evicted = Len(active_incidents) - Len(active_incidents'),
                  !.gap = IF hist.last_read >= 0 /\ ~hist.admit_pending
                          THEN now - hist.last_read ELSE -1,
                  !.admit_pending = FALSE]
    /\ UNCHANGED <<now, local>>

\* the wall clock moves between calls
TickSteps == {59, 60, 61}

Tick ==
    /\ \E d \in TickSteps : now + d <= MaxNow /\ now' = now + d
    /\ pc' = "tick"
    /\ UNCHANGED <<active_incidents, input, output, local, hist>>

NextAdmit == AdmitAny \/ Read \/ Tick

SpecAdmit == InitAdmit /\ [][NextAdmit]_vars

-----------------------------------------------------------------------------
(* C1: every incident stored in the registry, and every incident a read    *)
(* or an admission returns, has a severity key whose value is medium, high *)
(* or critical: a candidate of severity low, or without a severity, is     *)
(* discarded before admission.                                             *)

AllSignificant(s) ==
    \A i \in 1..Len(s) :
        /\ "severity" \in DOMAIN s[i]
        /\ s[i].severity \in {"medium", "high", "critical"}

C1_RegistrySignificant ==
    /\ AllSignificant(active_incidents)
    /\ pc \in {"analyze_realtime_data", "get_active_incidents"} => AllSignificant(output)

\* a read that returns incidents after a low or severity-less candidate was handed in
C1_Witness ==
    /\ pc = "get_active_incidents"
    /\ hist.low_discarded
    /\ output # <<>>

-----------------------------------------------------------------------------
(* C2: a read at time now returns exactly the stored incidents whose       *)
(* timestamp is strictly greater than now - 1 hour, in order, and leaves   *)
(* exactly those stored; a read 61 minutes or more after the previous read *)
(* with no admission in between returns the empty list and leaves the      *)
(* collection empty.                                                       *)

InWindow(inc) == inc.timestamp > now - 60

ReadStep == pc' = "get_active_incidents"

C2_ReadPrunes ==
    [][ReadStep =>
        /\ output' = SelectSeq(active_incidents, InWindow)
        /\ active_incidents' = output'
        /\ hist'.gap >= 61 => (output' = <<>> /\ Len(active_incidents') = 0)]_vars

\* the second of two reads 61 minutes apart, which evicted every stored incident
C2_Witness ==
    /\ pc = "get_active_incidents"
    /\ hist.gap = 61
    /\ hist.evicted > 0
    /\ active_incidents = <<>>

-----------------------------------------------------------------------------
(* SpecConc: the registry with an admitting caller and a reading caller on *)
(* different threads.  IncidentAnalyzer holds no lock.  The admission is   *)
(* one in-place list.extend (line 93).  get_active_incidents is a plain    *)
(* method that first builds the filtered list from the list the attribute  *)
(* refers to (lines 438-440) and then rebinds the attribute to it (line    *)
(* 437); another thread can run between the two.                           *)

InitConc ==
    /\ now = 0
    /\ active_incidents = <<>>
    /\ pc = "idle"                     \* the reading thread
    /\ input = <<>>
    /\ output = <<>>
    /\ local = <<>>                    \* the reading thread's filtered list
    /\ hist = [admitted |-> <<>>]      \* every incident appended so far

\* line 93, on the admitting thread
ConcAdmit ==
    \E enriched \in SeqsOf(CandDicts(now), 1, MaxCands) :
        LET significant_incidents == SignificantIncidents(enriched) IN
        /\ Len(hist.admitted) + Len(significant_incidents) <= MaxRegistry
        /\ active_incidents' = active_incidents \o significant_incidents
        /\ hist' = [admitted |-> hist.admitted \o significant_incidents]
        /\ UNCHANGED <<now, pc, input, output, local>>

\* lines 436-440: the list comprehension is evaluated
ConcReadFilter ==
    /\ pc = "idle"
    /\ local' = ActiveList(active_incidents, now)
    /\ pc' = "store"
    /\ UNCHANGED <<now, active_incidents, input, output, hist>>

\* lines 437 and 442: the attribute is rebound and returned
ConcReadStore ==
    /\ pc = "store"
    /\ active_incidents' = local
    /\ output' = local
    /\ local' = <<>>
    /\ pc' = "idle"
    /\ UNCHANGED <<now, input, hist>>

ConcTick ==
    /\ \E d \in TickSteps : now + d <= MaxNow /\ now' = now + d
    /\ UNCHANGED <<active_incidents, pc, input, output, local, hist>>

NextConc == ConcAdmit \/ ConcReadFilter \/ ConcReadStore \/ ConcTick

SpecConc == InitConc /\ [][NextConc]_vars

-----------------------------------------------------------------------------
(* C3: admission and prune-on-read exclude each other, so no admitted      *)
(* incident whose timestamp is still inside the window is ever missing     *)
(* from the stored collection.                                             *)

C3_NoLostAdmission ==
    Len(SelectSeq(hist.admitted, InWindow)) = Len(SelectSeq(active_incidents, InWindow))

-----------------------------------------------------------------------------
(* The LLM collaborator: ollama_trainer.py, generate_analysis.              *)

\* What self.ollama_client.generate(...) does on one call.  "hang": the call
\* never returns (the client is built without a timeout, line 19).
Failures == {"raises", "timeout", "error_response"}
Outcomes == {"ok", "hang"} \cup Failures

\* The value of a call that returned or raised: [raised, value].
Returned(v) == [raised |-> FALSE, value |-> v]
Raised(e) == [raised |-> TRUE, value |-> e]

\* a generate_analysis that lets the exception of the client through
generate_analysis_Propagates(prompt, outcome) ==
    IF outcome = "ok"
    THEN Returned(<<"response", prompt>>)
    ELSE Raised(outcome)

\* lines 313-328: the response text, or, on any exception (a failed or timed
\* out request, a response without the 'response' key), the error text
generate_analysis(prompt, outcome) ==
    IF outcome = "ok"
    THEN Returned(<<"response", prompt>>)
    ELSE Returned(<<"error_text", outcome>>)

-----------------------------------------------------------------------------
(* Enrichment: incident_analyzer.py, _enrich_incidents_with_ai.             *)

\* _create_incident_analysis_prompt, lines 389-415: type, service, description
\* and the evidence metrics
IncidentPrompt(incident) ==
    <<Get(incident, "type", "unknown"), Get(incident, "service", "unknown"),
      Get(incident, "description", ""), Get(incident, "metrics", <<>>)>>

EnrichOne_InPlace(incident, r, t) ==
    LET enriched_incident == Put(Put(incident, "ai_analysis", r.value), "analyzed_at", t)
    IN  IF ~r.raised
        THEN [appended |-> enriched_incident, original |-> enriched_incident]
        ELSE [appended |-> incident, original |-> incident]

\* One iteration of the loop, lines 366-383, given what generate_analysis did:
\* the dict appended to enriched_incidents and the candidate dict afterwards.
EnrichOne(incident, r, t) ==
    LET enriched_incident == Put(Put(incident, "ai_analysis", r.value), "analyzed_at", t)
    IN  IF ~r.raised
        THEN [appended |-> enriched_incident, original |-> incident]
        ELSE [appended |-> incident, original |-> incident]

\* Candidates as the rule evaluator builds them (lines 151-163, 245-257, 179-191).
RuleCandidates ==
    {[type |-> "log_errors", service |-> "checkout", severity |-> "critical",
      description |-> <<"high error level", "checkout">>,
      metrics |-> [error_count |-> 1, warning_count |-> 0, total_logs |-> 2],
      timestamp |-> 0],
     [type |-> "log_warnings", service |-> "cart", severity |-> "medium",
      description |-> <<"many warnings", "cart">>,
      metrics |-> [error_count |-> 0, warning_count |-> 1, total_logs |-> 2],
      timestamp |-> 0],
     [type |-> "high_latency", service |-> "checkout", severity |-> "high",
      description |-> <<"high latency", "checkout">>,
      metrics |-> [p95_duration_ms |-> 1200, max_duration_ms |-> 1200],
      timestamp |-> 0]}

InitEnrich ==
    /\ now = 1
    /\ active_incidents = <<>>
    /\ pc = "enrich_loop"
    /\ \E incidents \in SeqsOf(RuleCandidates, 0, MaxCands) :
       \E outcomes \in [1..Len(incidents) -> Outcomes] :
          /\ input = [incidents |-> incidents, outcomes |-> outcomes]
          /\ local = [i |-> 1, enriched_incidents |-> <<>>, candidates |-> incidents]
    /\ output = <<>>
    /\ hist = Hist0

\* lines 365-371: the next candidate's prompt is built and the collaborator called
EnrichCall ==
    /\ pc = "enrich_loop"
    /\ local.i <= Len(input.incidents)
    /\ pc' = "enrich_await"
    /\ UNCHANGED <<now, active_incidents, input, output, local, hist>>

\* lines 371-383: the call comes back; the loop moves to the next candidate
EnrichReturn ==
    /\ pc = "enrich_await"
    /\ input.outcomes[local.i] # "hang"
    /\ LET incident == local.candidates[local.i]
           r == generate_analysis(IncidentPrompt(incident), input.outcomes[local.i])
           step == EnrichOne(incident, r, now)
       IN  local' = [i |-> local.i + 1,
                     enriched_incidents |-> Append(local.enriched_incidents, step.appended),
                     candidates |-> [local.candidates EXCEPT ![local.i] = step.original]]
    /\ pc' = "enrich_loop"
    /\ UNCHANGED <<now, active_incidents, input, output, hist>>

\* line 385
EnrichDone ==
    /\ pc = "enrich_loop"
    /\ local.i > Len(input.incidents)
    /\ output' = local.enriched_incidents
    /\ pc' = "enrich_done"
    /\ UNCHANGED <<now, active_incidents, input, local, hist>>

NextEnrich == EnrichCall \/ EnrichReturn \/ EnrichDone

SpecEnrich == InitEnrich /\ [][NextEnrich]_vars

-----------------------------------------------------------------------------
(* C4: when the collaborator call for a candidate fails, the incident      *)
(* enrichment returns for it has no ai_analysis and no analyzed_at key and *)
(* is otherwise the candidate.                                             *)

C4_FailureLeavesAnalysisAbsent ==
    pc = "enrich_done" =>
        \A i \in 1..Len(input.incidents) :
            input.outcomes[i] \in Failures => output[i] = input.incidents[i]

-----------------------------------------------------------------------------
(* C5: enrichment returns one incident per candidate, in the same order,   *)
(* with the candidate's type, service, severity, description, metrics and  *)
(* timestamp, whatever the collaborator did on each call, and the          *)
(* candidate dicts it was given are unchanged.                             *)

CoreKeys == {"type", "service", "severity", "description", "metrics", "timestamp"}

SameCore(a, b) ==
    /\ CoreKeys \subseteq DOMAIN a
    /\ \A k \in CoreKeys : a[k] = b[k]

C5_EnrichKeepsCandidates ==
    /\ pc \in {"enrich_loop", "enrich_await", "enrich_done"} =>
          /\ Len(local.enriched_incidents) = local.i - 1
          /\ \A i \in 1..Len(local.enriched_incidents) :
                SameCore(local.enriched_incidents[i], input.incidents[i])
          /\ local.candidates = input.incidents
    /\ pc = "enrich_done" =>
          /\ Len(output) = Len(input.incidents)
          /\ \A i \in 1..Len(output) : SameCore(output[i], input.incidents[i])

\* a finished batch of two in which the first call failed and the second succeeded
C5_Witness ==
    /\ pc = "enrich_done"
    /\ Len(output) = 2
    /\ input.outcomes[1] \in Failures
    /\ input.outcomes[2] = "ok"
    /\ "ai_analysis" \in DOMAIN output[2]
    /\ input.incidents[1] # input.incidents[2]

-----------------------------------------------------------------------------
(* C6: a collaborator call that never returns does not stop the enrichment *)
(* of its siblings: as long as some candidate whose call would return is   *)
(* not enriched yet, the batch can take a step.                            *)

C6_SiblingsNotBlocked ==
    pc \in {"enrich_loop", "enrich_await"} =>
        ((\E j \in 1..Len(input.incidents) :
              /\ j > Len(local.enriched_incidents)
              /\ input.outcomes[j] # "hang")
         => ENABLED NextEnrich)

-----------------------------------------------------------------------------
(* Log analysis: incident_analyzer.py, _analyze_logs_for_incidents and     *)
(* _analyze_service_logs.                                                  *)

\* Log bodies.  str(log.body).lower() and the substring test `keyword in
\* log_text` are modelled by two tables over a small set of message texts:
\* the lower-cased text, and the keywords that occur in a lower-cased text.
BodyTexts == {"Payment FAILED", "slow response", "timeout, retry", "request served"}

Lower(text) == IF text = "Payment FAILED" THEN "payment failed" ELSE text

KeywordsIn(log_text) ==
    CASE log_text = "payment failed" -> {"failed"}
      [] log_text = "slow response"  -> {"slow"}
      [] log_text = "timeout, retry" -> {"timeout", "retry"}
      [] OTHER                       -> {}

\* line 131
error_keywords == {"error", "exception", "failed", "timeout", "crash", "panic"}
\* line 132
warning_keywords == {"warning", "slow", "delay", "retry", "fallback"}

\* line 138: any(keyword in log_text for keyword in error_keywords)
IsErrorLog(log) == KeywordsIn(Lower(log.body)) \cap error_keywords # {}
\* line 142
IsWarningLog(log) == KeywordsIn(Lower(log.body)) \cap warning_keywords # {}

RateAbove_NonStrict(count, total, num, den) == count * den >= num * total

\* count / total > num / den, for total > 0.  The code compares the float
\* count / total with the float literal; for counts below 2^53 / den the
\* correctly rounded quotient is above the literal exactly when the exact
\* quotient is, so the comparison is modelled exactly, in integers.
RateAbove(count, total, num, den) == count * den > num * total

LogIncident(type, service, severity, text, error_count, warning_count, total_logs, rate_key, rate, t) ==
    [type |-> type, service |-> service, severity |-> severity,
     description |-> <<text, service>>,
     metrics |-> Put([error_count |-> error_count, warning_count |-> warning_count,
                      total_logs |-> total_logs], rate_key, rate),
     timestamp |-> t]

\* lines 121-193
_analyze_service_logs(service, logs, t) ==
    LET error_count == Cardinality({i \in 1..Len(logs) : IsErrorLog(logs[i])})
        warning_count == Cardinality({i \in 1..Len(logs) : IsWarningLog(logs[i])})
        total_logs == Len(logs)
    IN  IF total_logs > 0
        THEN IF RateAbove(error_count, total_logs, 1, 10)
             THEN <<LogIncident("log_errors", service, "critical", "high error level",
                                error_count, warning_count, total_logs,
                                "error_rate", <<error_count, total_logs>>, t)>>
             ELSE IF RateAbove(error_count, total_logs, 5, 100)
             THEN <<LogIncident("log_errors", service, "high", "raised error level",
                                error_count, warning_count, total_logs,
                                "error_rate", <<error_count, total_logs>>, t)>>
             ELSE IF RateAbove(warning_count, total_logs, 2, 10)
             THEN <<LogIncident("log_warnings", service, "medium", "many warnings",
                                error_count, warning_count, total_logs,
                                "warning_rate", <<warning_count, total_logs>>, t)>>
             ELSE <<>>
        ELSE <<>>

\* The keys of a dict filled in arrival order: each key once, by first arrival.
RECURSIVE KeysInOrder(_)
KeysInOrder(keys) ==
    IF keys = <<>> THEN <<>>
    ELSE LET Other(k) == k # Head(keys)
         IN  <<Head(keys)>> \o KeysInOrder(SelectSeq(Tail(keys), Other))

ServiceNames(records) == [i \in 1..Len(records) |-> records[i].service_name]

GroupByService_Overwrite(records) ==
    [s \in Range(ServiceNames(records)) |->
        LET Mine(r) == r.service_name = s
            mine == SelectSeq(records, Mine)
        IN  <<mine[Len(mine)]>>]

\* lines 107-112 (and 203-208): the dict service -> its records, each list in
\* arrival order
GroupByService(records) ==
    [s \in Range(ServiceNames(records)) |->
        LET Mine(r) == r.service_name = s IN SelectSeq(records, Mine)]

RECURSIVE Concat(_)
Concat(lists) == IF lists = <<>> THEN <<>> ELSE Head(lists) \o Concat(Tail(lists))

\* lines 102-119
_analyze_logs_for_incidents(logs, t) ==
    LET logs_by_service == GroupByService(logs)
        services == KeysInOrder(ServiceNames(logs))
    IN  Concat([i \in 1..Len(services) |->
                  _analyze_service_logs(services[i], logs_by_service[services[i]], t)])

-----------------------------------------------------------------------------
(* SpecLogGroup: _analyze_service_logs on one service's logs, drawn by how *)
(* many of them match an error keyword, a warning keyword, both, neither.  *)

MaxTotal == 20

Repeat(x, n) == [i \in 1..n |-> x]

GroupOf(service, both, err, warn, plain) ==
    LET L(text) == [service_name |-> service, body |-> text]
    IN  Repeat(L("timeout, retry"), both) \o Repeat(L("Payment FAILED"), err)
        \o Repeat(L("slow response"), warn) \o Repeat(L("request served"), plain)

InitLogGroup ==
    /\ now = 0
    /\ active_incidents = <<>>
    /\ pc = "call"
    /\ \E both \in 0..MaxTotal : \E err \in 0..(MaxTotal - both) :
       \E warn \in 0..(MaxTotal - both - err) :
       \E plain \in 0..(MaxTotal - both - err - warn) :
          input = [service |-> "checkout",
                   logs |-> GroupOf("checkout", both, err, warn, plain),
                   error_count |-> both + err,
                   warning_count |-> both + warn,
                   total |-> both + err + warn + plain]
    /\ output = <<>>
    /\ local = <<>>
    /\ hist = Hist0

AnalyzeServiceLogs ==
    /\ pc = "call"
    /\ output' = _analyze_service_logs(input.service, input.logs, now)
    /\ pc' = "_analyze_service_logs"
    /\ UNCHANGED <<now, active_incidents, input, local, hist>>

NextLogGroup == AnalyzeServiceLogs

SpecLogGroup == InitLogGroup /\ [][NextLogGroup]_vars

-----------------------------------------------------------------------------
(* C7: for a log group with error_count e, warning_count w and total t:    *)
(* t = 0 gives no incident; e/t > 0.10 gives one log_errors incident of    *)
(* severity critical; 0.05 < e/t <= 0.10 one log_errors incident of        *)
(* severity high; e/t <= 0.05 and w/t > 0.20 one log_warnings incident of  *)
(* severity medium; anything else no incident.  All comparisons strict.    *)

OneIncident(incidents, type, severity) ==
    /\ Len(incidents) = 1
    /\ incidents[1].type = type
    /\ incidents[1].severity = severity

C7_LogThresholds ==
    pc = "_analyze_service_logs" =>
        LET e == input.error_count
            w == input.warning_count
            t == input.total
        IN  /\ t = 0 => output = <<>>
            /\ (t > 0 /\ 10 * e > t) => OneIncident(output, "log_errors", "critical")
            /\ (t > 0 /\ 20 * e > t /\ 10 * e <= t) =>
                    OneIncident(output, "log_errors", "high")
            /\ (t > 0 /\ 20 * e <= t /\ 5 * w > t) =>
                    OneIncident(output, "log_warnings", "medium")
            /\ (t > 0 /\ 20 * e <= t /\ 5 * w <= t) => output = <<>>

\* error_rate exactly 0.10 (2 of 20) with warning_rate above 0.20: one high incident
C7_Witness ==
    /\ pc = "_analyze_service_logs"
    /\ input.total = 20
    /\ input.error_count = 2
    /\ input.warning_count = 5
    /\ OneIncident(output, "log_errors", "high")

-----------------------------------------------------------------------------
(* SpecLogs: _analyze_logs_for_incidents on a batch of logs of two         *)
(* services, in every arrival order.                                       *)

MaxLogs == 3

Services == {"checkout", "cart"}

LogRecords == {[service_name |-> s, body |-> b] : s \in Services, b \in BodyTexts}

InitLogs ==
    /\ now = 0
    /\ active_incidents = <<>>
    /\ pc = "call"
    /\ \E logs \in SeqsOf(LogRecords, 0, MaxLogs) : input = [logs |-> logs]
    /\ output = <<>>
    /\ local = <<>>
    /\ hist = Hist0

AnalyzeLogs ==
    /\ pc = "call"
    /\ output' = _analyze_logs_for_incidents(input.logs, now)
    /\ local' = [logs_by_service |-> GroupByService(input.logs)]
    /\ pc' = "_analyze_logs_for_incidents"
    /\ UNCHANGED <<now, active_incidents, input, hist>>

NextLogs == AnalyzeLogs

SpecLogs == InitLogs /\ [][NextLogs]_vars

-----------------------------------------------------------------------------
(* C8: one evaluation of a log batch yields at most one log incident per   *)
(* service (so never a log_warnings and a log_errors incident for the same *)
(* service), and every log record is counted in the group of its           *)
(* service_name and in no other, whatever the arrival order.               *)

LogsOf(s) == {k \in 1..Len(input.logs) : input.logs[k].service_name = s}

C8_OneLogIncidentPerService ==
    pc = "_analyze_logs_for_incidents" =>
        /\ \A i, j \in 1..Len(output) : output[i].service = output[j].service => i = j
        /\ \A s \in DOMAIN local.logs_by_service :
              /\ Len(local.logs_by_service[s]) = Cardinality(LogsOf(s))
              /\ \A k \in 1..Len(local.logs_by_service[s]) :
                    local.logs_by_service[s][k].service_name = s
        /\ \A k \in 1..Len(input.logs) :
              input.logs[k].service_name \in DOMAIN local.logs_by_service
        /\ \A i \in 1..Len(output) :
              /\ output[i].metrics.total_logs = Cardinality(LogsOf(output[i].service))
              /\ output[i].metrics.error_count =
                    Cardinality({k \in LogsOf(output[i].service) :
                                   input.logs[k].body \in {"Payment FAILED", "timeout, retry"}})

\* interleaved arrival: checkout, cart, checkout, with one incident for each service
C8_Witness ==
    /\ pc = "_analyze_logs_for_incidents"
    /\ Len(input.logs) = 3
    /\ input.logs[1].service_name = "checkout"
    /\ input.logs[2].service_name = "cart"
    /\ input.logs[3].service_name = "checkout"
    /\ Len(output) = 2
    /\ output[1].metrics.total_logs = 2
    /\ output[1].type # output[2].type

-----------------------------------------------------------------------------
(* Trace analysis: incident_analyzer.py, _analyze_traces_for_incidents and *)
(* _analyze_service_traces.  Span times are in milliseconds.               *)

RECURSIVE Insert(_, _)
Insert(x, sorted) ==
    IF sorted = <<>> THEN <<x>>
    ELSE IF x <= Head(sorted) THEN <<x>> \o sorted
    ELSE <<Head(sorted)>> \o Insert(x, Tail(sorted))

RECURSIVE Sorted(_)
Sorted(values) ==
    IF values = <<>> THEN <<>> ELSE Insert(Head(values), Sorted(Tail(values)))

MaxSeq(values) == CHOOSE m \in Range(values) : \A v \in Range(values) : v <= m

Percentile_Lower(values, q) ==
    LET a == Sorted(values)
        lo == (q * (Len(a) - 1)) \div 100
    IN  <<a[lo + 1] * 100, 100>>

\* np.percentile(values, q), the default linear interpolation, for a non-empty
\* list: with h = (n - 1) * q / 100, the value a[floor(h)] + (h - floor(h)) *
\* (a[floor(h) + 1] - a[floor(h)]) of the sorted list a (indices from 0).
\* The result is the exact fraction <<numerator, 100>>; numpy rounds it to a
\* float.
Percentile(values, q) ==
    LET a == Sorted(values)
        h == q * (Len(a) - 1)
        lo == h \div 100
        hi == IF lo + 1 < Len(a) THEN lo + 1 ELSE lo
    IN  <<a[lo + 1] * 100 + (h % 100) * (a[hi + 1] - a[lo + 1]), 100>>

\* a fraction <<num, den>> > an integer
FracAbove(frac, limit) == frac[1] > limit * frac[2]

\* line 230
DurationMs(span) == span.end_time - span.start_time

\* lines 217-274
_analyze_service_traces(service, spans, t) ==
    IF spans = <<>> THEN <<>>
    ELSE
    LET durations == [i \in 1..Len(spans) |-> DurationMs(spans[i])]
        error_count == Cardinality({i \in 1..Len(spans) : spans[i].status_code # "OK"})
        total_spans == Len(spans)
        avg_duration == <<SumSeq(durations), Len(durations)>>
        p95_duration == Percentile(durations, 95)
        max_duration == MaxSeq(durations)
        error_rate == <<error_count, total_spans>>
    IN  (IF FracAbove(p95_duration, 1000)
         THEN <<[type |-> "high_latency", service |-> service, severity |-> "high",
                 description |-> <<"high latency", service>>,
                 metrics |-> [p95_duration_ms |-> p95_duration,
                              avg_duration_ms |-> avg_duration,
                              max_duration_ms |-> max_duration,
                              error_rate |-> error_rate],
                 timestamp |-> t]>>
         ELSE <<>>)
        \o
        (IF RateAbove(error_count, total_spans, 1, 10)
         THEN <<[type |-> "trace_errors", service |-> service, severity |-> "critical",
                 description |-> <<"many trace errors", service>>,
                 metrics |-> [error_count |-> error_count,
                              total_spans |-> total_spans,
                              error_rate |-> error_rate],
                 timestamp |-> t]>>
         ELSE <<>>)

\* lines 195-215
_analyze_traces_for_incidents(spans, t) ==
    IF spans = <<>> THEN <<>>
    ELSE
    LET spans_by_service == GroupByService(spans)
        services == KeysInOrder(ServiceNames(spans))
    IN  Concat([i \in 1..Len(services) |->
                  _analyze_service_traces(services[i], spans_by_service[services[i]], t)])

-----------------------------------------------------------------------------
(* SpecTraces: _analyze_service_traces on one service's spans, drawn by    *)
(* how many spans there are of each duration and status, plus the group of *)
(* 50 spans of 1200 ms of which one is an error (error rate 0.02).         *)

MaxSpans == 10

SpanDurations == <<800, 1000, 1200>>

SpanOf(service, duration, status) ==
    [service_name |-> service, start_time |-> 0, end_time |-> duration,
     status_code |-> status]

\* n[k] OK spans and m[k] error spans of duration SpanDurations[k]
SpanGroup(service, n, m) ==
    Concat([k \in 1..Len(SpanDurations) |->
              Repeat(SpanOf(service, SpanDurations[k], "OK"), n[k])
              \o Repeat(SpanOf(service, SpanDurations[k], "ERROR"), m[k])])

ExampleSpans ==
    Repeat(SpanOf("checkout", 1200, "OK"), 49) \o <<SpanOf("checkout", 1200, "ERROR")>>

InitTraces ==
    /\ now = 0
    /\ active_incidents = <<>>
    /\ pc = "call"
    /\ \/ \E n, m \in [1..Len(SpanDurations) -> 0..MaxSpans] :
             /\ SumSeq(n) + SumSeq(m) <= MaxSpans
             /\ input = [service |-> "checkout", spans |-> SpanGroup("checkout", n, m)]
       \/ input = [service |-> "checkout", spans |-> ExampleSpans]
    /\ output = <<>>
    /\ local = <<>>
    /\ hist = Hist0

AnalyzeServiceTraces ==
    /\ pc = "call"
    /\ output' = _analyze_service_traces(input.service, input.spans, now)
    /\ pc' = "_analyze_service_traces"
    /\ UNCHANGED <<now, active_incidents, input, local, hist>>

NextTraces == AnalyzeServiceTraces

SpecTraces == InitTraces /\ [][NextTraces]_vars

-----------------------------------------------------------------------------
(* C9: for a non-empty span group, a high_latency incident of severity     *)
(* high is produced iff the linearly interpolated 95th percentile of the   *)
(* durations is above 1000 ms, and a trace_errors incident of severity     *)
(* critical iff more than one tenth of the spans have a status_code other  *)
(* than "OK"; each rule fires at most once and neither depends on the      *)
(* other.                                                                  *)

\* the k-th smallest duration of the input (k from 0), by counting
OrderStat(k) ==
    LET d == [i \in 1..Len(input.spans) |-> input.spans[i].end_time - input.spans[i].start_time]
    IN  CHOOSE v \in Range(d) :
           /\ Cardinality({i \in 1..Len(d) : d[i] < v}) <= k
           /\ Cardinality({i \in 1..Len(d) : d[i] <= v}) > k

ExpectedP95Above1000 ==
    LET n == Len(input.spans)
        h == 95 * (n - 1)
        lo == h \div 100
        hi == IF lo + 1 < n THEN lo + 1 ELSE lo
    IN  100 * OrderStat(lo) + (h % 100) * (OrderStat(hi) - OrderStat(lo)) > 100000

ExpectedTraceErrors ==
    10 * Cardinality({i \in 1..Len(input.spans) : input.spans[i].status_code # "OK"})
        > Len(input.spans)

OfType(incidents, type) == {i \in 1..Len(incidents) : incidents[i].type = type}

C9_SpanRules ==
    (pc = "_analyze_service_traces" /\ input.spans # <<>>) =>
        /\ Cardinality(OfType(output, "high_latency")) = IF ExpectedP95Above1000 THEN 1 ELSE 0
        /\ Cardinality(OfType(output, "trace_errors")) = IF ExpectedTraceErrors THEN 1 ELSE 0
        /\ Len(output) = Cardinality(OfType(output, "high_latency"))
                         + Cardinality(OfType(output, "trace_errors"))
        /\ \A i \in OfType(output, "high_latency") : output[i].severity = "high"
        /\ \A i \in OfType(output, "trace_errors") : output[i].severity = "critical"

\* p95 1200 ms with error rate 0.02: exactly one incident, high_latency
C9_Witness ==
    /\ pc = "_analyze_service_traces"
    /\ Len(input.spans) = 50
    /\ Cardinality({i \in 1..50 : input.spans[i].status_code # "OK"}) = 1
    /\ Len(output) = 1
    /\ output[1].type = "high_latency"
    /\ output[1].metrics.p95_duration_ms = <<120000, 100>>

-----------------------------------------------------------------------------
(* Metric analysis: incident_analyzer.py, _analyze_metrics_for_anomalies   *)
(* and _detect_metric_anomalies.                                           *)

\* The names bound at module level in incident_analyzer.py (lines 1-15): the
\* imports and the class.  A global name that is not among them raises
\* NameError where it is evaluated.
ModuleGlobals ==
    {"asyncio", "re", "datetime", "timedelta", "List", "Dict", "Any", "Optional",
     "Tuple", "logger", "pd", "np", "config", "OTLPLog", "OTLPSpan", "OTLPMetric",
     "IncidentPattern", "VectorStore", "OllamaTrainer", "IncidentAnalyzer"}

\* `word in metric_name.lower()`, as a table over the metric names of the
\* model: the words of the rules that occur in the lower-cased name.
WordsInName(metric_name) ==
    CASE metric_name = "cpu_usage"        -> {"cpu"}
      [] metric_name = "Memory_Used"      -> {"memory"}
      [] metric_name = "request_duration" -> {"duration"}
      [] metric_name = "http_response_time" -> {"response_time"}
      [] metric_name = "cpu_memory_pressure" -> {"cpu", "memory"}
      [] metric_name = "memory_alloc_duration" -> {"memory", "duration"}
      [] OTHER                            -> {}

\* line 283: name and json.dumps(attributes, sort_keys=True); two attribute
\* dicts with the same items give the same signature
MetricKey(metric) == <<metric.name, metric.attributes>>

MetricIncident(type, metric, severity, current_value, avg_value, t) ==
    [type |-> type, service |-> Get(metric.attributes, "service", "unknown"),
     severity |-> severity,
     description |-> <<type, current_value, avg_value>>,
     metrics |-> [current_value |-> current_value, avg_value |-> avg_value],
     timestamp |-> t]

\* the three rules as independent ifs, each appending when its condition holds
_detect_metric_anomalies_EveryRule(metric_key, values, metric, t) ==
    IF values = <<>> THEN <<>>
    ELSE
    LET current_value == values[Len(values)]
        rest == SubSeq(values, 1, Len(values) - 1)
        avg_value == IF Len(values) > 1 THEN <<SumSeq(rest), Len(rest)>>
                     ELSE <<current_value, 1>>
        words == WordsInName(metric.name)
    IN  (IF "cpu" \in words /\ current_value > 80
         THEN <<MetricIncident("high_cpu", metric, "high", current_value, avg_value, t)>>
         ELSE <<>>)
        \o (IF "memory" \in words /\ current_value > 85
            THEN <<MetricIncident("high_memory", metric, "high", current_value, avg_value, t)>>
            ELSE <<>>)
        \o (IF ("response_time" \in words \/ "duration" \in words)
               /\ current_value * avg_value[2] > avg_value[1] * 2
            THEN <<MetricIncident("response_time_spike", metric, "medium",
                                  current_value, avg_value, t)>>
            ELSE <<>>)

\* lines 302-359; avg_value is the exact fraction <<sum, count>>
_detect_metric_anomalies(metric_key, values, metric, t) ==
    IF values = <<>> THEN <<>>
    ELSE
    LET current_value == values[Len(values)]
        rest == SubSeq(values, 1, Len(values) - 1)
        avg_value == IF Len(values) > 1 THEN <<SumSeq(rest), Len(rest)>>
                     ELSE <<current_value, 1>>
        words == WordsInName(metric.name)
    IN  IF "cpu" \in words
        THEN IF current_value > 80
             THEN <<MetricIncident("high_cpu", metric, "high", current_value, avg_value, t)>>
             ELSE <<>>
        ELSE IF "memory" \in words
        THEN IF current_value > 85
             THEN <<MetricIncident("high_memory", metric, "high", current_value, avg_value, t)>>
             ELSE <<>>
        ELSE IF "response_time" \in words \/ "duration" \in words
        THEN IF current_value * avg_value[2] > avg_value[1] * 2
             THEN <<MetricIncident("response_time_spike", metric, "medium",
                                   current_value, avg_value, t)>>
             ELSE <<>>
        ELSE <<>>

MetricKeys(metrics) == [i \in 1..Len(metrics) |-> MetricKey(metrics[i])]

\* lines 281-286: the dict key -> its points, in arrival order
GroupByKey(metrics) ==
    [k \in Range(MetricKeys(metrics)) |->
        LET Mine(m) == MetricKey(m) = k IN SelectSeq(metrics, Mine)]

\* lines 289-298, for one group
AnalyzeMetricGroup(key, metric_group, t) ==
    IF Len(metric_group) < 5 THEN <<>>
    ELSE _detect_metric_anomalies(key, [i \in 1..Len(metric_group) |-> metric_group[i].value],
                                  metric_group[1], t)

\* lines 276-300.  The first pass of the loop at line 282 evaluates the global
\* name json (line 283), which the module does not bind.
_analyze_metrics_for_anomalies(metrics, t) ==
    IF metrics # <<>> /\ "json" \notin ModuleGlobals
    THEN Raised("NameError")
    ELSE LET metrics_by_name == GroupByKey(metrics)
             keys == KeysInOrder(MetricKeys(metrics))
         IN  Returned(Concat([i \in 1..Len(keys) |->
                         AnalyzeMetricGroup(keys[i], metrics_by_name[keys[i]], t)]))

-----------------------------------------------------------------------------
(* analyze_realtime_data, end to end.                                      *)

\* lines 361-385 as a whole, for calls that all come back
EnrichAll(incidents, outcomes, t) ==
    [i \in 1..Len(incidents) |->
        EnrichOne(incidents[i],
                  generate_analysis(IncidentPrompt(incidents[i]), outcomes[i]), t).appended]

\* an analysis that admits what it has detected before the step that raises
analyze_realtime_data_Partial(logs, spans, metrics, outcomes, t) ==
    LET log_incidents == _analyze_logs_for_incidents(logs, t)
        trace_incidents == _analyze_traces_for_incidents(spans, t)
        metric_result == _analyze_metrics_for_anomalies(metrics, t)
        incidents == log_incidents \o trace_incidents
                     \o (IF metric_result.raised THEN <<>> ELSE metric_result.value)
        significant_incidents == SignificantIncidents(EnrichAll(incidents, outcomes, t))
    IN  [returned |-> IF metric_result.raised THEN <<>> ELSE significant_incidents,
         appended |-> significant_incidents]

\* lines 69-100: the returned list and the list appended to active_incidents
analyze_realtime_data(logs, spans, metrics, outcomes, t) ==
    LET log_incidents == _analyze_logs_for_incidents(logs, t)
        trace_incidents == _analyze_traces_for_incidents(spans, t)
        metric_result == _analyze_metrics_for_anomalies(metrics, t)
    IN  IF metric_result.raised
        THEN [returned |-> <<>>, appended |-> <<>>]
        ELSE LET incidents == log_incidents \o trace_incidents \o metric_result.value
                 enriched_incidents == EnrichAll(incidents, outcomes, t)
                 significant_incidents == SignificantIncidents(enriched_incidents)
             IN  [returned |-> significant_incidents, appended |-> significant_incidents]

\* how many collaborator calls a batch leads to
CandidateCount(logs, spans, metrics, t) ==
    LET metric_result == _analyze_metrics_for_anomalies(metrics, t)
    IN  Len(_analyze_logs_for_incidents(logs, t)) + Len(_analyze_traces_for_incidents(spans, t))
        + (IF metric_result.raised THEN 0 ELSE Len(metric_result.value))

-----------------------------------------------------------------------------
(* Spec: batches of telemetry through analyze_realtime_data, and reads of  *)
(* the registry, at one time of the clock.                                 *)

LogBatches ==
    {<<>>,
     <<[service_name |-> "checkout", body |-> "Payment FAILED"],
       [service_name |-> "checkout", body |-> "request served"]>>,
     <<[service_name |-> "cart", body |-> "slow response"]>>}

SpanBatches == {<<>>, <<SpanOf("checkout", 1200, "OK")>>}

MetricPoint(name, value) ==
    [name |-> name, value |-> value, attributes |-> [service |-> "checkout"],
     timestamp |-> 0]

\* the metric series: n points of a name, the last one being `last`
Series(name, n, last) == Repeat(MetricPoint(name, 40), n - 1) \o <<MetricPoint(name, last)>>

MetricBatches ==
    {<<>>, Series("cpu_usage", 5, 92), Series("cpu_usage", 4, 92),
     Series("cpu_usage", 5, 80)}

Init ==
    /\ now = 0
    /\ active_incidents = <<>>
    /\ pc = "idle"
    /\ input = <<>>
    /\ output = <<>>
    /\ local = <<>>
    /\ hist = Hist0

Analyze ==
    \E logs \in LogBatches, spans \in SpanBatches, metrics \in MetricBatches :
    \E outcomes \in [1..CandidateCount(logs, spans, metrics, now) -> {"ok", "raises"}] :
        LET r == analyze_realtime_data(logs, spans, metrics, outcomes, now) IN
        /\ Len(active_incidents) + Len(r.appended) <= MaxRegistry
        /\ active_incidents' = active_incidents \o r.appended
        /\ output' = r.returned
        /\ input' = [logs |-> logs, spans |-> spans, metrics |-> metrics]
        /\ pc' = "analyze_realtime_data"
        /\ hist' = [hist EXCEPT !.admit_pending = TRUE]
        /\ UNCHANGED <<now, local>>

Next == Analyze \/ Read

Spec == Init /\ [][Next]_vars

-----------------------------------------------------------------------------
(* C10: a batch analysed by analyze_realtime_data that holds a metric      *)
(* group of at least 5 points whose name contains "cpu" and whose last     *)
(* value is above 80 yields exactly one high_cpu incident of severity high *)
(* for that group, with current_value equal to that last value.            *)

C10_HighCpuDetected ==
    pc = "analyze_realtime_data" =>
        \A k \in Range(MetricKeys(input.metrics)) :
            LET Mine(m) == MetricKey(m) = k
                group == SelectSeq(input.metrics, Mine)
                last == group[Len(group)].value
            IN  (Len(group) >= 5 /\ k[1] = "cpu_usage" /\ last > 80) =>
                    Cardinality({i \in 1..Len(output) :
                                   /\ output[i].type = "high_cpu"
                                   /\ output[i].severity = "high"
                                   /\ output[i].metrics.current_value = last}) = 1

-----------------------------------------------------------------------------
(* SpecMetricGroup: the metric rules on one group of points of one metric  *)
(* name (lines 289-298 and _detect_metric_anomalies).                      *)

MaxPoints == 5

MetricNames ==
    {"cpu_usage", "Memory_Used", "request_duration", "http_response_time",
     "cpu_memory_pressure", "memory_alloc_duration", "queue_depth"}

MetricValues == {10, 50, 90}

InitMetricGroup ==
    /\ now = 0
    /\ active_incidents = <<>>
    /\ pc = "idle"
    /\ input \in {[name |-> name, values |-> values] :
                     name \in MetricNames, values \in SeqsOf(MetricValues, 4, MaxPoints)}
    /\ output = <<>>
    /\ local = <<>>
    /\ hist = Hist0

AnalyzeMetricGroupStep ==
    /\ pc = "idle"
    /\ LET metric_group == [i \in 1..Len(input.values) |->
                               MetricPoint(input.name, input.values[i])]
       IN  output' = AnalyzeMetricGroup(MetricKey(metric_group[1]), metric_group, now)
    /\ pc' = "_detect_metric_anomalies"
    /\ UNCHANGED <<now, active_incidents, input, local, hist>>

NextMetricGroup == AnalyzeMetricGroupStep

SpecMetricGroup == InitMetricGroup /\ [][NextMetricGroup]_vars

-----------------------------------------------------------------------------
(* C11: for a group of at least 5 points, every metric rule whose          *)
(* condition holds fires, whatever else the name contains: a name with     *)
(* "memory" and a last value above 85 yields a high_memory incident of     *)
(* severity high, and a name with "response_time" or "duration" and a last *)
(* value above twice the mean of the earlier values yields a               *)
(* response_time_spike incident of severity medium.                        *)

NameHasMemory == input.name \in {"Memory_Used", "cpu_memory_pressure", "memory_alloc_duration"}

NameHasResponseTime ==
    input.name \in {"request_duration", "http_response_time", "memory_alloc_duration"}

C11_EveryMetricRuleFires ==
    pc = "_detect_metric_anomalies" /\ Len(input.values) >= 5 =>
        LET n == Len(input.values)
            last == input.values[n]
            earlier == SumSeq(SubSeq(input.values, 1, n - 1))
        IN  /\ (NameHasMemory /\ last > 85) =>
                   \E i \in 1..Len(output) :
                       output[i].type = "high_memory" /\ output[i].severity = "high"
            /\ (NameHasResponseTime /\ last * (n - 1) > 2 * earlier) =>
                   \E i \in 1..Len(output) :
                       output[i].type = "response_time_spike" /\ output[i].severity = "medium"

-----------------------------------------------------------------------------
(* The OTLP receiver: app/services/otel_receiver.py.                       *)
(*                                                                         *)
(* A JSON value is a record [t, v]: t is its Python type after             *)
(* request.json() ("object", "array", "string", "number", "null") and v    *)
(* its content: a function on string keys for an object, a sequence for an *)
(* array, the text for a string and for a number.                          *)

JNull == [t |-> "null", v |-> <<>>]
JObj(f) == [t |-> "object", v |-> f]
JArr(s) == [t |-> "array", v |-> s]
JStr(s) == [t |-> "string", v |-> s]
JNum(text) == [t |-> "number", v |-> text]

IsDict(j) == j.t = "object"

\* `for x in j` raises TypeError for these; an object yields its keys and a
\* string its characters, which are strings
Iterable(j) == j.t \in {"array", "object", "string"}

\* j.get(key, default) on a dict
JGet(j, key, default) == Get(j.v, key, default)

\* TLA+ strings are atoms: the characters of the texts that the model
\* iterates over or converts with int()
CharsOf(text) ==
    CASE text = "" -> <<>>
      [] text = "0" -> <<"0">>
      [] text = "abc" -> <<"a", "b", "c">>
      [] text = "oops" -> <<"o", "o", "p", "s">>
      [] text = "2600" -> <<"2", "6", "0", "0">>
      [] text = "999999999" -> <<"9", "9", "9", "9", "9", "9", "9", "9", "9">>
      [] text = "1999999600" -> <<"1", "9", "9", "9", "9", "9", "9", "6", "0", "0">>
      [] text = "1700000000000000000" ->
            <<"1", "7", "0", "0", "0", "0", "0", "0", "0", "0",
              "0", "0", "0", "0", "0", "0", "0", "0", "0">>
      [] text = "1700000000500000000" ->
            <<"1", "7", "0", "0", "0", "0", "0", "0", "0", "0",
              "5", "0", "0", "0", "0", "0", "0", "0", "0">>
      [] text = "1700000000999999999" ->
            <<"1", "7", "0", "0", "0", "0", "0", "0", "0", "0",
              "9", "9", "9", "9", "9", "9", "9", "9", "9">>
      [] text = "1700000000000001499" ->
            <<"1", "7", "0", "0", "0", "0", "0", "0", "0", "0",
              "0", "0", "0", "0", "0", "1", "4", "9", "9">>
      [] text = "99999999999999999999999999999" ->
            [i \in 1..29 |-> "9"]

\* bool(j)
Truthy(j) ==
    CASE j.t = "null" -> FALSE
      [] j.t = "number" -> \E i \in 1..Len(CharsOf(j.v)) : CharsOf(j.v)[i] # "0"
      [] j.t = "string" -> j.v # ""
      [] j.t = "array" -> j.v # <<>>
      [] OTHER -> DOMAIN j.v # {}

-----------------------------------------------------------------------------
(* _parse_timestamp, lines 163-171.  A datetime is [sec, us]: seconds      *)
(* since the epoch and microseconds, the resolution of datetime.           *)

DigitChars == {"0", "1", "2", "3", "4", "5", "6", "7", "8", "9"}

DigitValue(c) ==
    CASE c = "0" -> 0 [] c = "1" -> 1 [] c = "2" -> 2 [] c = "3" -> 3 [] c = "4" -> 4
      [] c = "5" -> 5 [] c = "6" -> 6 [] c = "7" -> 7 [] c = "8" -> 8 [] c = "9" -> 9

RECURSIVE IntOfDigits(_)
IntOfDigits(d) ==
    IF d = <<>> THEN 0
    ELSE 10 * IntOfDigits(SubSeq(d, 1, Len(d) - 1)) + DigitValue(d[Len(d)])

\* the 1_000_000_000 of line 167 has nine zeros: the last nine digits of n
\* are the nanoseconds, the digits before them the seconds
NanoDigits == 9

SecondsDigits(d) == IF Len(d) > NanoDigits THEN SubSeq(d, 1, Len(d) - NanoDigits) ELSE <<>>

NanosOf(d) ==
    IntOfDigits(IF Len(d) > NanoDigits THEN SubSeq(d, Len(d) - NanoDigits + 1, Len(d)) ELSE d)

\* datetime.now() when the clock shows t minutes
DatetimeNow(t) == [sec |-> 60 * t, us |-> 0]

\* int(n) / 1_000_000_000 and datetime.fromtimestamp: the quotient rounded to
\* the microsecond, half to even.  The division is modelled exactly; the
\* float quotient of the code is within 0.12 us of it for dates up to 2038,
\* which changes the rounding only for n within 0.12 us of a half
\* microsecond (the inputs of the model have none).
FromTimestamp_Floor(sec, ns) == [sec |-> sec, us |-> 0]

FromTimestamp(sec, ns) ==
    LET q == ns \div 1000
        r == ns % 1000
        us == IF r > 500 \/ (r = 500 /\ q % 2 = 1) THEN q + 1 ELSE q
    IN  IF us = 1000000 THEN [sec |-> sec + 1, us |-> 0] ELSE [sec |-> sec, us |-> us]

\* Seconds of 13 digits or more are past year 9999 (253402300799), seconds of
\* more than 19 digits past a 64-bit time_t.  (Seconds of 11 and 12 digits
\* and of exactly 19 digits fall on either side of these limits by their
\* value; the inputs of the model have none.)
MaxYearDigits == 12
MaxTimeTDigits == 19

\* int() raises ValueError for text that is not a number and TypeError for a
\* list or a dict; fromtimestamp raises ValueError for a year past 9999 and
\* OverflowError past the range of time_t.  Only the first two are caught
\* (line 169).
_parse_timestamp(nano_timestamp, t) ==
    IF ~Truthy(nano_timestamp) THEN Returned(DatetimeNow(t))
    ELSE IF nano_timestamp.t \in {"array", "object"} THEN Returned(DatetimeNow(t))
    ELSE IF \E i \in 1..Len(CharsOf(nano_timestamp.v)) :
                CharsOf(nano_timestamp.v)[i] \notin DigitChars
         THEN Returned(DatetimeNow(t))
    ELSE LET d == CharsOf(nano_timestamp.v) IN
         IF Len(SecondsDigits(d)) > MaxTimeTDigits THEN Raised("OverflowError")
         ELSE IF Len(SecondsDigits(d)) > MaxYearDigits THEN Returned(DatetimeNow(t))
         ELSE Returned(FromTimestamp(IntOfDigits(SecondsDigits(d)), NanosOf(d)))

-----------------------------------------------------------------------------
(* The telemetry records (models/telemetry.py) and their validation.       *)

\* The major version of pydantic the service is installed with; the source
\* does not pin it, and the two validate a Dict field differently.
PydanticVersions == {1, 2}

\* Validation of a Dict[str, str] or Dict[str, Any] field.  A JSON object
\* passes.  A list is rejected by pydantic 2; pydantic 1 passes it through
\* dict(), which accepts the empty list and a list of two-key objects.
ValidDict(j, pydantic) ==
    CASE j.t = "object" -> TRUE
      [] j.t = "array" ->
            /\ pydantic = 1
            /\ \A i \in 1..Len(j.v) : IsDict(j.v[i]) /\ Cardinality(DOMAIN j.v[i].v) = 2
      [] OTHER -> FALSE

\* Validation of a str field: pydantic 1 also takes a number, as its text.
ValidStr(j, pydantic) == j.t = "string" \/ (pydantic = 1 /\ j.t = "number")

\* the elements a for loop visits (of an Iterable value): the keys of an
\* object and the characters of a string are strings
ItemsOf(j) ==
    CASE j.t = "array" -> j.v
      [] j.t = "string" -> [i \in 1..Len(CharsOf(j.v)) |-> JStr(CharsOf(j.v)[i])]
      [] OTHER -> [i \in 1..Cardinality(DOMAIN j.v) |-> JStr("key")]

\* the results of the passes of a loop that appends to a list: the first
\* exception ends the loop, else the list of everything appended
Collect(results) ==
    IF \E i \in 1..Len(results) : results[i].raised
    THEN results[CHOOSE i \in 1..Len(results) :
                    /\ results[i].raised
                    /\ \A j \in 1..(i - 1) : ~results[j].raised]
    ELSE Returned(Concat([i \in 1..Len(results) |-> results[i].value]))

\* _extract_service_name, lines 188-192
RECURSIVE ExtractFrom(_)
ExtractFrom(attrs) ==
    IF attrs = <<>> THEN Returned(JStr("unknown"))
    ELSE LET attr == Head(attrs) IN
         IF ~IsDict(attr) THEN Raised("AttributeError")
         ELSE IF JGet(attr, "key", JNull) = JStr("service.name")
              THEN LET value == JGet(attr, "value", JObj(<<>>)) IN
                   IF ~IsDict(value) THEN Raised("AttributeError")
                   ELSE Returned(JGet(value, "stringValue", JStr("unknown")))
              ELSE ExtractFrom(Tail(attrs))

_extract_service_name(attributes) ==
    IF ~Iterable(attributes) THEN Raised("TypeError") ELSE ExtractFrom(ItemsOf(attributes))

\* _parse_log_body, lines 173-186: every exception is caught inside
_parse_log_body(record) ==
    LET body == JGet(record, "body", JObj(<<>>)) IN
    IF ~IsDict(body) THEN [raw |-> record]
    ELSE IF Truthy(JGet(body, "stringValue", JNull))
         THEN [message |-> JGet(body, "stringValue", JNull)]
         ELSE body.v

\* resource_log.get("resource", {}).get("attributes", {}), lines 59 and 88
ResourceAttributes(resource_log) ==
    IF ~IsDict(resource_log) THEN Raised("AttributeError")
    ELSE LET resource == JGet(resource_log, "resource", JObj(<<>>)) IN
         IF ~IsDict(resource) THEN Raised("AttributeError")
         ELSE Returned(JGet(resource, "attributes", JObj(<<>>)))

-----------------------------------------------------------------------------
(* _parse_logs_data, lines 53-80.                                          *)

\* lines 66-73, one pass of the innermost loop
ParseLogRecord(record, resource, service_name, t, pydantic) ==
    IF ~IsDict(record) THEN Raised("AttributeError")
    ELSE LET timestamp == _parse_timestamp(JGet(record, "timeUnixNano", JNull), t)
             attributes == JGet(record, "attributes", JArr(<<>>))
         IN  IF timestamp.raised THEN timestamp
             ELSE IF \/ ~ValidDict(attributes, pydantic)
                     \/ ~ValidDict(resource, pydantic)
                     \/ ~ValidStr(service_name, pydantic)
                  THEN Raised("ValidationError")
                  ELSE Returned(<<[timestamp |-> timestamp.value,
                                   body |-> _parse_log_body(record),
                                   attributes |-> attributes,
                                   resource |-> resource,
                                   service_name |-> service_name.v]>>)

\* lines 63-73
ParseScopeLogs(scope_log, resource, service_name, t, pydantic) ==
    IF ~IsDict(scope_log) THEN Raised("AttributeError")
    ELSE LET log_records == JGet(scope_log, "logRecords", JArr(<<>>)) IN
         IF ~Iterable(log_records) THEN Raised("TypeError")
         ELSE Collect([i \in 1..Len(ItemsOf(log_records)) |->
                          ParseLogRecord(ItemsOf(log_records)[i], resource,
                                         service_name, t, pydantic)])

\* lines 58-73
ParseResourceLogs(resource_log, t, pydantic) ==
    LET resource == ResourceAttributes(resource_log) IN
    IF resource.raised THEN resource
    ELSE LET service_name == _extract_service_name(resource.value) IN
         IF service_name.raised THEN service_name
         ELSE LET scope_logs == JGet(resource_log, "scopeLogs", JArr(<<>>)) IN
              IF ~Iterable(scope_logs) THEN Raised("TypeError")
              ELSE Collect([i \in 1..Len(ItemsOf(scope_logs)) |->
                               ParseScopeLogs(ItemsOf(scope_logs)[i], resource.value,
                                              service_name.value, t, pydantic)])

\* lines 56-76, the body of the try
WalkLogs(body, t, pydantic) ==
    IF ~IsDict(body) THEN Raised("AttributeError")
    ELSE LET resource_logs == JGet(body, "resourceLogs", JArr(<<>>)) IN
         IF ~Iterable(resource_logs) THEN Raised("TypeError")
         ELSE Collect([i \in 1..Len(ItemsOf(resource_logs)) |->
                          ParseResourceLogs(ItemsOf(resource_logs)[i], t, pydantic)])

_parse_logs_data_NoCatch(body, t, pydantic) == WalkLogs(body, t, pydantic)

\* with `logs` a list that outlives the call
_parse_logs_data_Accumulating(body, t, pydantic) ==
    LET logs == WalkLogs(body, t, pydantic) IN
    IF logs.raised THEN Returned(<<>>)
    ELSE Returned((IF pc = "decoded" THEN output.value ELSE <<>>) \o logs.value)

\* lines 53-80: one try around the whole walk, `except Exception: return []`
_parse_logs_data(body, t, pydantic) ==
    LET logs == WalkLogs(body, t, pydantic) IN
    IF logs.raised THEN Returned(<<>>) ELSE logs

-----------------------------------------------------------------------------
(* _parse_traces_data, lines 82-115.                                       *)

\* Validation of an Optional[str] field
ValidOptStr(j, pydantic) == j.t = "null" \/ ValidStr(j, pydantic)

\* lines 95-108, one pass of the innermost loop
ParseSpan(span_data, service_name, t, pydantic) ==
    IF ~IsDict(span_data) THEN Raised("AttributeError")
    ELSE LET start_time == _parse_timestamp(JGet(span_data, "startTimeUnixNano", JNull), t)
             end_time == _parse_timestamp(JGet(span_data, "endTimeUnixNano", JNull), t)
             status == JGet(span_data, "status", JObj(<<>>))
             trace_id == JGet(span_data, "traceId", JStr(""))
             span_id == JGet(span_data, "spanId", JStr(""))
             parent_span_id == JGet(span_data, "parentSpanId", JNull)
             name == JGet(span_data, "name", JStr("unknown"))
             attributes == JGet(span_data, "attributes", JArr(<<>>))
             events == JGet(span_data, "events", JArr(<<>>))
         IN  IF start_time.raised THEN start_time
             ELSE IF end_time.raised THEN end_time
             ELSE IF ~IsDict(status) THEN Raised("AttributeError")
             ELSE IF \/ ~ValidStr(trace_id, pydantic)
                     \/ ~ValidStr(span_id, pydantic)
                     \/ ~ValidOptStr(parent_span_id, pydantic)
                     \/ ~ValidStr(name, pydantic)
                     \/ ~ValidDict(attributes, pydantic)
                     \/ events.t # "array"
                     \/ ~ValidStr(service_name, pydantic)
                     \/ ~ValidStr(JGet(status, "code", JStr("OK")), pydantic)
                     \/ ~ValidOptStr(JGet(status, "message", JNull), pydantic)
                  THEN Raised("ValidationError")
                  ELSE Returned(<<[trace_id |-> trace_id.v,
                                   span_id |-> span_id.v,
                                   parent_span_id |-> parent_span_id,
                                   name |-> name.v,
                                   start_time |-> start_time.value,
                                   end_time |-> end_time.value,
                                   attributes |-> attributes,
                                   events |-> events,
                                   service_name |-> service_name.v,
                                   status_code |-> JGet(status, "code", JStr("OK")).v,
                                   status_message |-> JGet(status, "message", JNull)]>>)

\* lines 92-108
ParseScopeSpans(scope_span, service_name, t, pydantic) ==
    IF ~IsDict(scope_span) THEN Raised("AttributeError")
    ELSE LET span_records == JGet(scope_span, "spans", JArr(<<>>)) IN
         IF ~Iterable(span_records) THEN Raised("TypeError")
         ELSE Collect([i \in 1..Len(ItemsOf(span_records)) |->
                          ParseSpan(ItemsOf(span_records)[i], service_name, t, pydantic)])

\* lines 87-108
ParseResourceSpans(resource_span, t, pydantic) ==
    LET resource == ResourceAttributes(resource_span) IN
    IF resource.raised THEN resource
    ELSE LET service_name == _extract_service_name(resource.value) IN
         IF service_name.raised THEN service_name
         ELSE LET scope_spans == JGet(resource_span, "scopeSpans", JArr(<<>>)) IN
              IF ~Iterable(scope_spans) THEN Raised("TypeError")
              ELSE Collect([i \in 1..Len(ItemsOf(scope_spans)) |->
                               ParseScopeSpans(ItemsOf(scope_spans)[i],
                                               service_name.value, t, pydantic)])

\* lines 85-111, the body of the try
WalkTraces(body, t, pydantic) ==
    IF ~IsDict(body) THEN Raised("AttributeError")
    ELSE LET resource_spans == JGet(body, "resourceSpans", JArr(<<>>)) IN
         IF ~Iterable(resource_spans) THEN Raised("TypeError")
         ELSE Collect([i \in 1..Len(ItemsOf(resource_spans)) |->
                          ParseResourceSpans(ItemsOf(resource_spans)[i], t, pydantic)])

\* lines 82-115
_parse_traces_data(body, t, pydantic) ==
    LET spans == WalkTraces(body, t, pydantic) IN
    IF spans.raised THEN Returned(<<>>) ELSE spans

-----------------------------------------------------------------------------
(* _parse_metrics_data and _parse_single_metric, lines 117-161.            *)

\* Validation of a float field: a number, or a string that is one
ValidFloat(j) ==
    \/ j.t = "number"
    \/ /\ j.t = "string"
       /\ j.v # ""
       /\ \A i \in 1..Len(CharsOf(j.v)) : CharsOf(j.v)[i] \in DigitChars

\* lines 148-154: the OTLPMetric of one data point
ParsePoint(point, name, unit, t, pydantic) ==
    IF ~IsDict(point) THEN Raised("AttributeError")
    ELSE LET timestamp == _parse_timestamp(JGet(point, "timeUnixNano", JNull), t)
             value == JGet(point, "asDouble", JNum("0"))
             attributes == JGet(point, "attributes", JArr(<<>>))
         IN  IF timestamp.raised THEN timestamp
             ELSE IF \/ ~ValidStr(name, pydantic)
                     \/ ~ValidFloat(value)
                     \/ ~ValidDict(attributes, pydantic)
                     \/ ~ValidOptStr(unit, pydantic)
                  THEN Raised("ValidationError")
                  ELSE Returned(<<[name |-> name.v, value |-> value.v,
                                   timestamp |-> timestamp.value,
                                   attributes |-> attributes, unit |-> unit]>>)

\* lines 146-154: the loop returns in its first pass
PointsOf(data_points, name, unit, t, pydantic) ==
    IF ItemsOf(data_points) = <<>> THEN Returned(<<>>)
    ELSE ParsePoint(ItemsOf(data_points)[1], name, unit, t, pydantic)

\* lines 138-161: the metric (a list of one) or None (the empty list)
_parse_single_metric(metric_data, t, pydantic) ==
    IF ~IsDict(metric_data) THEN <<>>
    ELSE LET name == JGet(metric_data, "name", JStr(""))
             unit == JGet(metric_data, "unit", JStr(""))
             gauge == JGet(metric_data, "gauge", JObj(<<>>))
         IN  IF ~Truthy(gauge) THEN <<>>
             ELSE IF ~IsDict(gauge) THEN <<>>
             ELSE LET data_points == JGet(gauge, "dataPoints", JArr(<<>>)) IN
                  IF ~Iterable(data_points) THEN <<>>
                  ELSE LET metric == PointsOf(data_points, name, unit, t, pydantic) IN
                       IF metric.raised THEN <<>> ELSE metric.value

\* lines 124-129
ParseScopeMetrics(scope_metric, t, pydantic) ==
    IF ~IsDict(scope_metric) THEN Raised("AttributeError")
    ELSE LET metric_records == JGet(scope_metric, "metrics", JArr(<<>>)) IN
         IF ~Iterable(metric_records) THEN Raised("TypeError")
         ELSE Returned(Concat([i \in 1..Len(ItemsOf(metric_records)) |->
                          _parse_single_metric(ItemsOf(metric_records)[i], t, pydantic)]))

\* lines 122-129
ParseResourceMetrics(resource_metric, t, pydantic) ==
    IF ~IsDict(resource_metric) THEN Raised("AttributeError")
    ELSE LET scope_metrics == JGet(resource_metric, "scopeMetrics", JArr(<<>>)) IN
         IF ~Iterable(scope_metrics) THEN Raised("TypeError")
         ELSE Collect([i \in 1..Len(ItemsOf(scope_metrics)) |->
                          ParseScopeMetrics(ItemsOf(scope_metrics)[i], t, pydantic)])

\* lines 120-132, the body of the try
WalkMetrics(body, t, pydantic) ==
    IF ~IsDict(body) THEN Raised("AttributeError")
    ELSE LET resource_metrics == JGet(body, "resourceMetrics", JArr(<<>>)) IN
         IF ~Iterable(resource_metrics) THEN Raised("TypeError")
         ELSE Collect([i \in 1..Len(ItemsOf(resource_metrics)) |->
                          ParseResourceMetrics(ItemsOf(resource_metrics)[i], t, pydantic)])

\* lines 117-136
_parse_metrics_data(body, t, pydantic) ==
    LET metrics == WalkMetrics(body, t, pydantic) IN
    IF metrics.raised THEN Returned(<<>>) ELSE metrics

-----------------------------------------------------------------------------
(* SpecTimestamp: _parse_timestamp on one value of a timeUnixNano field,   *)
(* at one reading of the clock.                                            *)

MaxClock == 3

NumericTexts ==
    {"0", "2600", "999999999", "1999999600", "1700000000000000000",
     "1700000000500000000", "1700000000999999999", "1700000000000001499"}

TimestampValues ==
    {JStr(text) : text \in NumericTexts \cup {"", "abc", "99999999999999999999999999999"}}
    \cup {JNum(text) : text \in {"0", "1700000000500000000"}}
    \cup {JNull, JArr(<<>>), JArr(<<JStr("abc")>>), JObj(<<>>)}

InitTimestamp ==
    /\ now \in 0..MaxClock
    /\ active_incidents = <<>>
    /\ pc = "idle"
    /\ input \in TimestampValues
    /\ output = <<>>
    /\ local = <<>>
    /\ hist = Hist0

ParseTimestamp ==
    /\ pc = "idle"
    /\ output' = _parse_timestamp(input, now)
    /\ pc' = "_parse_timestamp"
    /\ UNCHANGED <<now, active_incidents, input, local, hist>>

NextTimestamp == ParseTimestamp

SpecTimestamp == InitTimestamp /\ [][NextTimestamp]_vars

-----------------------------------------------------------------------------
(* C20: a nanosecond timestamp given as a numeric string n decodes to      *)
(* n / 10^9 seconds with the sub-second part kept, to the microsecond that *)
(* a datetime holds: the decoded time is less than one microsecond from n, *)
(* never n truncated to the whole second; "1700000000500000000" decodes to *)
(* 1700000000 seconds and 500000 microseconds.                             *)

\* decoded minus n, in nanoseconds, is strictly between -1000 and 1000
WithinOneMicrosecond(decoded, text) ==
    LET sec == IntOfDigits(SecondsDigits(CharsOf(text)))
        ns == NanosOf(CharsOf(text))
    IN  \/ decoded.sec = sec /\ 1000 * decoded.us - ns \in -999..999
        \/ decoded.sec = sec + 1 /\ decoded.us = 0 /\ 1000000000 - ns < 1000

-----------------------------------------------------------------------------
(* SpecDecode: one export payload decoded, and decoded again when the      *)
(* clock has or has not moved on.  The payloads are built of up to         *)
(* MaxRecords records in one or two resource groups, with and without      *)
(* resource attributes, and of payloads with a broken container.           *)

MaxRecords == 3

EmptyObj == JObj(<<>>)

\* a log record with a text body and its attributes as a JSON object
LogRecord(text) == [body |-> JObj([stringValue |-> JStr(text)]), attributes |-> EmptyObj]

RecordTimes ==
    {JStr("1700000000500000000"), JStr("abc"), JStr("99999999999999999999999999999")}

\* records that decode on their own with either pydantic
GoodLogRecords ==
    {JObj(LogRecord("request served"))}
    \cup {JObj(Put(LogRecord("Payment FAILED"), "timeUnixNano", ts)) :
             ts \in RecordTimes \ {JStr("99999999999999999999999999999")}}

KeyValue(key, text) == JObj([key |-> JStr(key), value |-> JObj([stringValue |-> JStr(text)])])

\* records that do not: not an object, or a time past the range of time_t
BadLogRecords ==
    {JStr("oops"),
     JObj(Put(LogRecord("Payment FAILED"), "timeUnixNano",
              JStr("99999999999999999999999999999")))}

\* records as an OTLP exporter sends them: the attributes a key-value list,
\* or no attributes; and a body that is a plain string
OtherLogRecords ==
    {JObj([body |-> JStr("slow response"),
           attributes |-> JArr(<<KeyValue("http.method", "GET")>>)])}

LogRecordShapes == GoodLogRecords \cup BadLogRecords \cup OtherLogRecords

GoodSpans ==
    {JObj([traceId |-> JStr("t1"), spanId |-> JStr("s1"), name |-> JStr("GET /cart"),
           startTimeUnixNano |-> JStr("1700000000000000000"),
           endTimeUnixNano |-> JStr("1700000000500000000"),
           attributes |-> EmptyObj]),
     JObj([traceId |-> JStr("t1"), spanId |-> JStr("s2"), parentSpanId |-> JStr("s1"),
           startTimeUnixNano |-> JStr("1700000000000000000"),
           attributes |-> EmptyObj,
           status |-> JObj([code |-> JStr("ERROR"), message |-> JStr("boom")])])}

BadSpans ==
    {JObj([traceId |-> JStr("t1"), spanId |-> JStr("s3"), attributes |-> EmptyObj,
           status |-> JStr("ERROR")])}

OtherSpans ==
    {JObj([traceId |-> JStr("t1"), spanId |-> JStr("s4"),
           startTimeUnixNano |-> JStr("1700000000000000000"),
           endTimeUnixNano |-> JStr("1700000000999999999")])}

SpanShapes == GoodSpans \cup BadSpans \cup OtherSpans

DataPoint(text) ==
    JObj([asDouble |-> JNum(text), timeUnixNano |-> JStr("1700000000500000000"),
          attributes |-> EmptyObj])

Gauge(name, points) ==
    JObj([name |-> JStr(name), unit |-> JStr("%"),
          gauge |-> JObj([dataPoints |-> JArr(points)])])

\* gauges of one and of two data points, and of a point without asDouble
GaugeMetrics ==
    {Gauge("cpu_usage", <<DataPoint("92")>>),
     Gauge("cpu_usage", <<DataPoint("40"), DataPoint("92")>>),
     Gauge("Memory_Used", <<JObj([attributes |-> EmptyObj])>>)}

\* metric definitions of another representation
OtherMetrics ==
    {JObj([name |-> JStr("requests_total"),
           sum |-> JObj([dataPoints |-> JArr(<<DataPoint("7")>>)])]),
     JObj([name |-> JStr("request_duration"),
           histogram |-> JObj([dataPoints |-> JArr(<<>>)])])}

BadMetrics == {JStr("oops")}

MetricShapes == GaugeMetrics \cup OtherMetrics \cup BadMetrics

\* resource → scope → record: the records in one scope of one resource
ResourceGroup(scope_key, record_key, attributes, records) ==
    LET scopes == JArr(<<JObj([k \in {record_key} |-> JArr(records)])>>) IN
    JObj(IF attributes = JNull
         THEN [k \in {scope_key} |-> scopes]
         ELSE [k \in {"resource", scope_key} |->
                  IF k = scope_key THEN scopes
                  ELSE JObj([attributes |-> attributes])])

\* the keys of the three levels, lines 56-64, 85-93 and 120-125
KeysOf(data_type) ==
    CASE data_type = "logs" ->
            [resource |-> "resourceLogs", scope |-> "scopeLogs", record |-> "logRecords"]
      [] data_type = "traces" ->
            [resource |-> "resourceSpans", scope |-> "scopeSpans", record |-> "spans"]
      [] data_type = "metrics" ->
            [resource |-> "resourceMetrics", scope |-> "scopeMetrics", record |-> "metrics"]

\* the export payload of the records: the first `split` of them in a first
\* resource group, the others in a second one
Payload(data_type, attributes, records, split) ==
    LET Group(recs) == ResourceGroup(KeysOf(data_type).scope, KeysOf(data_type).record,
                                     attributes, recs)
        first == SubSeq(records, 1, split)
        others == SubSeq(records, split + 1, Len(records))
    IN  JObj([k \in {KeysOf(data_type).resource} |->
                JArr(IF split = 0 THEN <<Group(others)>> ELSE <<Group(first), Group(others)>>)])

\* without resource attributes or with a service name, in one resource
\* group or in two
Layouts ==
    {[attributes |-> JNull, split |-> 0],
     [attributes |-> JArr(<<KeyValue("service.name", "checkout")>>), split |-> 0],
     [attributes |-> JNull, split |-> 1]}

ShapesOf(data_type) ==
    CASE data_type = "logs" -> LogRecordShapes
      [] data_type = "traces" -> SpanShapes
      [] data_type = "metrics" -> MetricShapes

\* payloads whose container is not what the decoder walks
BrokenPayloads(data_type) ==
    {JArr(<<>>), JStr("oops"), JNull, EmptyObj,
     JObj([k \in {KeysOf(data_type).resource} |-> JNull]),
     JObj([k \in {KeysOf(data_type).resource} |-> JArr(<<JStr("oops")>>)]),
     JObj([k \in {KeysOf(data_type).resource} |-> JArr(<<JObj([resource |-> JNull])>>)])}

DataTypes == {"logs", "traces", "metrics"}

DecodeInput(data_type, pydantic, records, body) ==
    [data_type |-> data_type, pydantic |-> pydantic, records |-> records, body |-> body]

InitDecode ==
    /\ now = 0
    /\ active_incidents = <<>>
    /\ pc = "idle"
    /\ \E data_type \in DataTypes, pydantic \in PydanticVersions :
          \/ \E layout \in Layouts, n \in 1..MaxRecords :
             \E records \in [1..n -> ShapesOf(data_type)] :
                input = DecodeInput(data_type, pydantic, records,
                                    Payload(data_type, layout.attributes, records,
                                            layout.split))
          \/ \E body \in BrokenPayloads(data_type) :
                input = DecodeInput(data_type, pydantic, <<>>, body)
    /\ output = <<>>
    /\ local = <<>>
    /\ hist = Hist0

\* the decoder of a signal kind, lines 37-42
Decoder(data_type, body, t, pydantic) ==
    CASE data_type = "logs" -> _parse_logs_data(body, t, pydantic)
      [] data_type = "traces" -> _parse_traces_data(body, t, pydantic)
      [] data_type = "metrics" -> _parse_metrics_data(body, t, pydantic)

Decode ==
    /\ pc = "idle"
    /\ output' = Decoder(input.data_type, input.body, now, input.pydantic)
    /\ local' = [decoded_at |-> now]
    /\ pc' = "decoded"
    /\ UNCHANGED <<now, active_incidents, input, hist>>

\* the wall clock moves on between two decodes
DecodeTick ==
    /\ pc = "decoded"
    /\ now = local.decoded_at
    /\ now' = now + 1
    /\ UNCHANGED <<active_incidents, pc, input, output, local, hist>>

DecodeAgain ==
    /\ pc = "decoded"
    /\ output' = Decoder(input.data_type, input.body, now, input.pydantic)
    /\ local' = [decoded_at |-> local.decoded_at, first |-> output]
    /\ pc' = "decoded_again"
    /\ UNCHANGED <<now, active_incidents, input, hist>>

NextDecode == Decode \/ DecodeTick \/ DecodeAgain

SpecDecode == InitDecode /\ [][NextDecode]_vars

-----------------------------------------------------------------------------
(* C12: the decoders never raise to the caller: for every payload,         *)
(* whatever its shape, each returns a sequence of records, which may be    *)
(* empty.                                                                  *)

C12_DecodersNeverRaise ==
    pc \in {"decoded", "decoded_again"} =>
        /\ ~output.raised
        /\ DOMAIN output.value = 1..Len(output.value)

\* a payload that is not an object, and one with a record that is not an
\* object, each decoded to the empty list
C12_Witness ==
    /\ pc = "decoded"
    /\ input.data_type = "logs"
    /\ \/ ~IsDict(input.body)
       \/ \E i \in 1..Len(input.records) : ~IsDict(input.records[i])
    /\ output = Returned(<<>>)

-----------------------------------------------------------------------------
(* C13: a decode failure is isolated to the record that caused it: of a    *)
(* payload of logs or of spans in which one record is malformed and the    *)
(* others are well-formed, the decoder returns all the well-formed         *)
(* records, those before and those after the malformed one.                *)

GoodRecords(data_type) == IF data_type = "logs" THEN GoodLogRecords ELSE GoodSpans

BadRecords(data_type) == IF data_type = "logs" THEN BadLogRecords ELSE BadSpans

C13_FailureIsolated ==
    (/\ pc = "decoded"
     /\ input.data_type \in {"logs", "traces"}
     /\ input.records # <<>>
     /\ \A i \in 1..Len(input.records) :
           input.records[i] \in GoodRecords(input.data_type) \cup BadRecords(input.data_type)
     /\ Cardinality({i \in 1..Len(input.records) :
                        input.records[i] \in BadRecords(input.data_type)}) = 1)
    => Len(output.value) = Len(input.records) - 1

-----------------------------------------------------------------------------
(* C14: metric decoding yields one point per data point of every gauge     *)
(* metric definition, with that point's asDouble value (0 if absent), and  *)
(* nothing for a definition without a gauge (sum, histogram), which does   *)
(* not fail the decode of the other definitions.                           *)

\* the asDouble values of the data points of a metric definition
PointValues(metric) ==
    IF "gauge" \notin DOMAIN metric.v THEN <<>>
    ELSE LET points == metric.v.gauge.v.dataPoints.v IN
         [i \in 1..Len(points) |-> JGet(points[i], "asDouble", JNum("0")).v]

C14_OnePointPerDataPoint ==
    (/\ pc = "decoded"
     /\ input.data_type = "metrics"
     /\ input.records # <<>>
     /\ \A i \in 1..Len(input.records) : input.records[i] \in GaugeMetrics \cup OtherMetrics)
    => [i \in 1..Len(output.value) |-> output.value[i].value]
           = Concat([i \in 1..Len(input.records) |-> PointValues(input.records[i])])

-----------------------------------------------------------------------------
(* C18: decoding the same payload twice, after any earlier decode, yields  *)
(* two structurally identical record sequences, for every payload, also    *)
(* one in which a record's timestamp is missing or not numeric.            *)

C18_DecodeTwiceIdentical == pc = "decoded_again" => output = local.first

\* As amended: the two sequences have the same length and agree in every
\* field, except that a timestamp the decoder fills with its decode time is
\* the time of each decode.
TimeFields == {"timestamp", "start_time", "end_time"}

C18_IdenticalButDecodeTime ==
    pc = "decoded_again" =>
        /\ ~output.raised /\ ~local.first.raised
        /\ Len(output.value) = Len(local.first.value)
        /\ \A i \in 1..Len(output.value) :
              LET first == local.first.value[i]
                  second == output.value[i]
              IN  /\ DOMAIN first = DOMAIN second
                  /\ \A f \in DOMAIN first :
                        \/ first[f] = second[f]
                        \/ /\ f \in TimeFields
                           /\ first[f] = DatetimeNow(local.decoded_at)
                           /\ second[f] = DatetimeNow(now)

\* two decodes at different times of a record with a timestamp and of one
\* without: the first timestamps agree, the second ones are the decode times
C18_Witness ==
    /\ pc = "decoded_again"
    /\ input.data_type = "logs"
    /\ now # local.decoded_at
    /\ Len(output.value) = 2
    /\ output.value[1].timestamp = local.first.value[1].timestamp
    /\ output.value[1].timestamp = [sec |-> 1700000000, us |-> 500000]
    /\ output.value[2].timestamp # local.first.value[2].timestamp

-----------------------------------------------------------------------------
(* C19: a record whose timestamp field is missing or not numeric gets the  *)
(* decode time as its timestamp and is decoded, with all the other         *)
(* records; no value of a timestamp field makes the whole decode fail or   *)
(* return empty.                                                           *)

\* log records that are well-formed but for the value of timeUnixNano
TimedLogRecords ==
    {JObj(LogRecord("request served"))}
    \cup {JObj(Put(LogRecord("Payment FAILED"), "timeUnixNano", ts)) : ts \in RecordTimes}

C19_TimestampNeverFailsDecode ==
    (/\ pc = "decoded"
     /\ input.data_type = "logs"
     /\ \A i \in 1..Len(input.records) : input.records[i] \in TimedLogRecords)
    => /\ Len(output.value) = Len(input.records)
       /\ \A i \in 1..Len(input.records) :
             LET ts == JGet(input.records[i], "timeUnixNano", JNull) IN
             (ts = JNull \/ ts = JStr("abc")) =>
                 output.value[i].timestamp = DatetimeNow(now)

-----------------------------------------------------------------------------
(* SpecReceiver: one request to /otel/v1/logs, /otel/v1/traces or          *)
(* /otel/v1/metrics (_process_otlp_request, lines 30-51), and reads of the *)
(* registry.  The receiver is built without the analyzer (main.py, line    *)
(* 61) and _process_data_async (lines 194-204) only writes a log line.     *)

\* a request body that is not JSON: request.json() raises
NotJson == [t |-> "invalid", v |-> <<>>]

\* await request.json(), line 32
RequestJson(raw) == IF raw.t = "invalid" THEN Raised("JSONDecodeError") ELSE Returned(raw)

HttpOk(content) == [status_code |-> 200, content |-> content]

\* raise HTTPException(status_code=400, detail=str(e)), line 51
HttpError(detail) == [status_code |-> 400, content |-> [detail |-> detail]]

\* _process_data_async, lines 194-204: len(data) and a log line
_process_data_async(data, data_type) == Returned(Len(data))

\* lines 30-51
_process_otlp_request(raw, data_type, t, pydantic) ==
    LET body == RequestJson(raw) IN
    IF body.raised THEN HttpError(body.value)
    ELSE LET processed_data == Decoder(data_type, body.value, t, pydantic) IN
         IF processed_data.raised THEN HttpError(processed_data.value)
         ELSE LET logged == _process_data_async(processed_data.value, data_type) IN
              IF logged.raised THEN HttpError(logged.value)
              ELSE HttpOk([status |-> "success", processed |-> Len(processed_data.value)])

InitReceiver ==
    /\ now = 0
    /\ active_incidents = <<>>
    /\ pc = "idle"
    /\ \E data_type \in DataTypes, pydantic \in PydanticVersions :
          \/ \E layout \in Layouts, n \in 1..MaxRecords :
             \E records \in [1..n -> ShapesOf(data_type)] :
                input = DecodeInput(data_type, pydantic, records,
                                    Payload(data_type, layout.attributes, records,
                                            layout.split))
          \/ \E body \in BrokenPayloads(data_type) \cup {NotJson} :
                input = DecodeInput(data_type, pydantic, <<>>, body)
    /\ output = <<>>
    /\ local = <<>>
    /\ hist = Hist0

ProcessRequest ==
    /\ pc = "idle"
    /\ output' = _process_otlp_request(input.body, input.data_type, now, input.pydantic)
    /\ pc' = "_process_otlp_request"
    /\ UNCHANGED <<now, active_incidents, input, local, hist>>

\* get_active_incidents after the request
ReadAfter ==
    /\ pc \in {"_process_otlp_request", "get_active_incidents"}
    /\ active_incidents' = ActiveList(active_incidents, now)
    /\ output' = active_incidents'
    /\ pc' = "get_active_incidents"
    /\ local' = [response |-> IF pc = "_process_otlp_request" THEN output ELSE local.response]
    /\ UNCHANGED <<now, input, hist>>

NextReceiver == ProcessRequest \/ ReadAfter

SpecReceiver == InitReceiver /\ [][NextReceiver]_vars

-----------------------------------------------------------------------------
(* C15: a request whose top-level payload is not the expected container (a *)
(* JSON array or scalar instead of an object) is answered with a request   *)
(* failure; a payload that is an object and has only record-level decode   *)
(* failures is answered with success.                                      *)

C15_StructureErrorsFailRequest ==
    pc = "_process_otlp_request" =>
        /\ ~IsDict(input.body) => output.status_code >= 400
        /\ IsDict(input.body) =>
              (output.status_code = 200 /\ output.content.status = "success")

-----------------------------------------------------------------------------
(* C16: every ingestion request passes its decoded records through rule    *)
(* evaluation, enrichment and admission, and its response carries the      *)
(* processed count together with the incidents admitted for the request: a *)
(* payload that trips a rule leads to an incident that a following         *)
(* get_active_incidents() returns.                                         *)

\* the decoded logs of the request as the analyzer reads them: the service
\* name and the text of the body
DecodedLogs ==
    LET decoded == _parse_logs_data(input.body, now, input.pydantic).value
        HasMessage(log) == "message" \in DOMAIN log.body
        with_message == SelectSeq(decoded, HasMessage)
    IN  [i \in 1..Len(with_message) |->
            [service_name |-> with_message[i].service_name,
             body |-> with_message[i].body.message.v]]

TripsLogRule ==
    /\ input.data_type = "logs"
    /\ IsDict(input.body)
    /\ _analyze_logs_for_incidents(DecodedLogs, now) # <<>>

C16_RequestReachesRegistry ==
    /\ (pc = "_process_otlp_request" /\ output.status_code = 200) =>
          /\ "processed" \in DOMAIN output.content
          /\ "incidents" \in DOMAIN output.content
    /\ (pc = "get_active_incidents" /\ local.response.status_code = 200 /\ TripsLogRule) =>
          output # <<>>

-----------------------------------------------------------------------------
(* SpecStats: get_incident_statistics (lines 444-472) on the registry,     *)
(* with admissions of candidates of two types and a clock that moves past  *)
(* the window.                                                             *)

\* lines 457-465, the loop over the active incidents; by_severity[severity]
\* raises KeyError for a severity that is not one of the four keys
RECURSIVE CountIncidents(_, _, _)
CountIncidents(incidents, by_type, by_severity) ==
    IF incidents = <<>> THEN Returned([by_type |-> by_type, by_severity |-> by_severity])
    ELSE LET incident == Head(incidents)
             inc_type == Get(incident, "type", "unknown")
             severity == Get(incident, "severity", "low")
         IN  IF severity \notin DOMAIN by_severity THEN Raised("KeyError")
             ELSE CountIncidents(Tail(incidents),
                                 Put(by_type, inc_type, Get(by_type, inc_type, 0) + 1),
                                 Put(by_severity, severity, by_severity[severity] + 1))

Statistics(counted, active, t) ==
    LET counts == CountIncidents(counted, <<>>,
                                 [critical |-> 0, high |-> 0, medium |-> 0, low |-> 0])
    IN  [active |-> active,
         result |-> IF counts.raised THEN counts
                    ELSE Returned([total_active_incidents |-> Len(counted),
                                   by_type |-> counts.value.by_type,
                                   by_severity |-> counts.value.by_severity,
                                   last_updated |-> t])]

get_incident_statistics_Unpruned(stored, t) ==
    Statistics(stored, ActiveList(stored, t), t)

\* lines 444-472: the list get_active_incidents stores back, and the result
get_incident_statistics(stored, t) ==
    Statistics(ActiveList(stored, t), ActiveList(stored, t), t)

StatTypes == {"log_errors", "high_latency"}

StatCandDicts(t) ==
    {[type |-> ty, service |-> "svc", severity |-> sv, timestamp |-> t] :
        ty \in StatTypes, sv \in CandSeverities}
    \cup {[type |-> ty, service |-> "svc", timestamp |-> t] : ty \in StatTypes}

AdmitStats == \E enriched \in SeqsOf(StatCandDicts(now), 1, MaxCands) : Admit(enriched)

GetStatistics ==
    LET r == get_incident_statistics(active_incidents, now) IN
    /\ active_incidents' = r.active
    /\ output' = r.result
    /\ input' = <<>>
    /\ pc' = "get_incident_statistics"
    /\ hist' = [hist EXCEPT
                  !.last_read = now,
                  !.evicted = Len(active_incidents) - Len(r.active),
                  !.gap = -1,
                  !.admit_pending = FALSE]
    /\ UNCHANGED <<now, local>>

\* the clock moves past the window
StatsTick ==
    /\ now + Window + 1 <= MaxNow
    /\ now' = now + Window + 1
    /\ pc' = "tick"
    /\ UNCHANGED <<active_incidents, input, output, local, hist>>

NextStats == AdmitStats \/ GetStatistics \/ StatsTick

SpecStats == InitAdmit /\ [][NextStats]_vars

-----------------------------------------------------------------------------
(* C17: get_incident_statistics is computed from the pruned active set:    *)
(* by_type has a key for exactly the types that occur, with their counts;  *)
(* by_severity has exactly the keys critical, high, medium, low with the   *)
(* counts of the active incidents of each; low is always 0; the total is   *)
(* the sum of by_type and the sum of by_severity; and the call never       *)
(* fails.                                                                  *)

ActiveWith(key, value) ==
    Cardinality({i \in 1..Len(active_incidents) : active_incidents[i][key] = value})

SumOver(counts) ==
    LET RECURSIVE Sum(_)
        Sum(keys) == IF keys = {} THEN 0
                     ELSE LET k == CHOOSE k \in keys : TRUE IN counts[k] + Sum(keys \ {k})
    IN  Sum(DOMAIN counts)

C17_StatisticsOfActiveSet ==
    pc = "get_incident_statistics" =>
        /\ ~output.raised
        /\ \A i \in 1..Len(active_incidents) : active_incidents[i].timestamp > now - 60
        /\ LET stats == output.value IN
           /\ DOMAIN stats.by_type = {active_incidents[i].type : i \in 1..Len(active_incidents)}
           /\ \A ty \in DOMAIN stats.by_type : stats.by_type[ty] = ActiveWith("type", ty)
           /\ DOMAIN stats.by_severity = {"critical", "high", "medium", "low"}
           /\ \A sv \in {"critical", "high", "medium"} :
                 stats.by_severity[sv] = ActiveWith("severity", sv)
           /\ stats.by_severity.low = 0
           /\ stats.total_active_incidents = Len(active_incidents)
           /\ stats.total_active_incidents = SumOver(stats.by_type)
           /\ stats.total_active_incidents = SumOver(stats.by_severity)

\* statistics that pruned an expired incident and count the one that is left
C17_Witness ==
    /\ pc = "get_incident_statistics"
    /\ hist.evicted > 0
    /\ hist.low_discarded
    /\ output.value.total_active_incidents = 1
    /\ DOMAIN output.value.by_type = {"high_latency"}

-----------------------------------------------------------------------------
(* SpecRegistry: admissions, reads and statistics on one registry, with    *)
(* the admitted candidate list kept in input after each admission.         *)

BatchSeverities == {"low", "medium", "high"}

BatchDicts(t) ==
    {c \in CandDicts(t) : "severity" \in DOMAIN c /\ c.severity \in BatchSeverities}

AdmitBatch ==
    \E enriched \in SeqsOf(BatchDicts(now), 1, MaxCands) : AdmitRecording(enriched, enriched)

NextRegistry == AdmitBatch \/ Read \/ GetStatistics \/ Tick

SpecRegistry == InitAdmit /\ [][NextRegistry]_vars

-----------------------------------------------------------------------------
(* C21: admission does not deduplicate.  An admission of a list with k     *)
(* candidates of severity medium, high or critical appends exactly those   *)
(* k, in order, to the stored collection, whatever it holds already; a     *)
(* read returns every unexpired stored entry as often as it is stored, and *)
(* the statistics count every unexpired entry, so that an incident         *)
(* admitted twice is returned as two entries and is counted twice.         *)

Occurrences(s, d) == Cardinality({i \in 1..Len(s) : s[i] = d})

Unexpired(d) == d.timestamp > now - 60

C21_AdmissionKeepsDuplicates ==
    [][/\ pc' = "analyze_realtime_data" =>
            LET k == Cardinality({i \in 1..Len(input') :
                        /\ "severity" \in DOMAIN input'[i]
                        /\ input'[i].severity \in {"medium", "high", "critical"}})
            IN  /\ Len(active_incidents') = Len(active_incidents) + k
                /\ Len(output') = k
                /\ active_incidents' = active_incidents \o output'
       /\ pc' = "get_active_incidents" =>
            \A d \in Range(active_incidents) :
                Unexpired(d) => Occurrences(output', d) = Occurrences(active_incidents, d)
       /\ pc' = "get_incident_statistics" =>
            /\ ~output'.raised
            /\ output'.value.total_active_incidents =
                   Cardinality({i \in 1..Len(active_incidents) : Unexpired(active_incidents[i])})
            /\ \A d \in Range(active_incidents) :
                   Unexpired(d) =>
                       /\ output'.value.by_type[d.type] >= Occurrences(active_incidents, d)
                       /\ output'.value.by_severity[d.severity] >= Occurrences(active_incidents, d)
      ]_vars

\* statistics that count twice an incident the registry holds twice
C21_Witness ==
    /\ pc = "get_incident_statistics"
    /\ Len(active_incidents) = 2
    /\ active_incidents[1] = active_incidents[2]
    /\ output.value.total_active_incidents = 2
    /\ output.value.by_type["log_errors"] = 2

-----------------------------------------------------------------------------
(* C22: an admitted incident stays in the registry until a read evicts it  *)
(* by age.  No step other than a read (get_active_incidents, directly or   *)
(* from get_incident_statistics) removes or reorders a stored incident; a  *)
(* read at time now keeps exactly the incidents with now < timestamp + 1   *)
(* hour, in their stored order, and returns them; and every stored         *)
(* incident is younger than one hour at the last read, so that an incident *)
(* a read has removed is never stored again.                               *)

ReadSteps == {"get_active_incidents", "get_incident_statistics"}

OneHour == 60

\* the positions of the stored incidents a read at time t must keep
Alive(stored, t) == {i \in 1..Len(stored) : t < stored[i].timestamp + OneHour}

\* the j-th smallest member of a set of positions
Nth(positions, j) == CHOOSE i \in positions : Cardinality({k \in positions : k <= i}) = j

C22_LivesUntilEvicted ==
    [][/\ pc' \notin ReadSteps =>
            /\ Len(active_incidents') >= Len(active_incidents)
            /\ SubSeq(active_incidents', 1, Len(active_incidents)) = active_incidents
       /\ pc' \in ReadSteps =>
            LET alive == Alive(active_incidents, now) IN
            /\ Len(active_incidents') = Cardinality(alive)
            /\ \A j \in 1..Len(active_incidents') :
                   active_incidents'[j] = active_incidents[Nth(alive, j)]
            /\ pc' = "get_active_incidents" => output' = active_incidents'
       /\ hist'.last_read >= 0 =>
            \A i \in 1..Len(active_incidents') :
                hist'.last_read < active_incidents'[i].timestamp + OneHour
      ]_vars

\* a read that evicted the older of two incidents and returned the younger
C22_Witness ==
    /\ pc = "get_active_incidents"
    /\ hist.evicted = 1
    /\ Len(output) = 1
    /\ output[1].timestamp = now - 59

-----------------------------------------------------------------------------
(* SpecMetrics: _analyze_metrics_for_anomalies (lines 276-300) on a batch  *)
(* of metric points of several names and attribute sets, in any arrival    *)
(* order.                                                                  *)

MaxMetrics == 6

BatchPoints ==
    {[name |-> "cpu_usage", value |-> 40, attributes |-> [service |-> "checkout"],
      timestamp |-> 0],
     [name |-> "cpu_usage", value |-> 92, attributes |-> [service |-> "checkout"],
      timestamp |-> 0],
     [name |-> "cpu_usage", value |-> 95, attributes |-> [service |-> "cart"],
      timestamp |-> 0],
     [name |-> "request_duration", value |-> 95, attributes |-> [service |-> "checkout"],
      timestamp |-> 0]}

InitMetrics ==
    /\ now = 0
    /\ active_incidents = <<>>
    /\ pc = "idle"
    /\ \E n \in 0..MaxMetrics : \E metrics \in [1..n -> BatchPoints] : input = metrics
    /\ output = <<>>
    /\ local = <<>>
    /\ hist = Hist0

AnalyzeMetrics ==
    /\ pc = "idle"
    /\ output' = _analyze_metrics_for_anomalies(input, now)
    /\ pc' = "_analyze_metrics_for_anomalies"
    /\ UNCHANGED <<now, active_incidents, input, local, hist>>

NextMetrics == AnalyzeMetrics

SpecMetrics == InitMetrics /\ [][NextMetrics]_vars

-----------------------------------------------------------------------------
(* C23: metrics are grouped by name and attributes.  The analysis of a     *)
(* batch returns, for every group of points of one name and one attribute  *)
(* set, in the order in which the groups first occur: nothing when the     *)
(* group has fewer than 5 points, and otherwise what the rules give for    *)
(* the value of the group's last point as current value and the mean of    *)
(* the group's other points as baseline; points of another name or of      *)
(* other attributes take no part in either.                                *)

\* the points of the batch with this name and these attributes, in arrival order
PointsOfGroup(name, attributes) ==
    LET Mine(m) == m.name = name /\ m.attributes = attributes IN SelectSeq(input, Mine)

\* what the rules give for a group, from its last value and the others
ExpectedOfGroup(group) ==
    IF Len(group) < 5 THEN <<>>
    ELSE LET n == Len(group)
             last == group[n].value
             others == [i \in 1..(n - 1) |-> group[i].value]
             incidents == _detect_metric_anomalies(<<>>, others \o <<last>>, group[1], now)
         IN  incidents

C23_GroupedByNameAndAttributes ==
    pc = "_analyze_metrics_for_anomalies" =>
        /\ ~output.raised
        /\ LET firsts == {i \in 1..Len(input) :
                            \A j \in 1..(i - 1) :
                                \/ input[j].name # input[i].name
                                \/ input[j].attributes # input[i].attributes}
               groups == [j \in 1..Cardinality(firsts) |->
                            PointsOfGroup(input[Nth(firsts, j)].name,
                                          input[Nth(firsts, j)].attributes)]
           IN  /\ output.value = Concat([j \in 1..Len(groups) |-> ExpectedOfGroup(groups[j])])
               /\ \A i \in 1..Len(output.value) :
                      \E j \in 1..Len(groups) :
                          LET n == Len(groups[j]) IN
                          /\ n >= 5
                          /\ output.value[i].service = groups[j][1].attributes.service
                          /\ output.value[i].metrics.current_value = groups[j][n].value
                          /\ output.value[i].metrics.avg_value =
                                 <<SumSeq([k \in 1..(n - 1) |-> groups[j][k].value]), n - 1>>

-----------------------------------------------------------------------------
(* SpecLogBody: _parse_log_body (lines 173-186) on one log record.  The    *)
(* records have a body with a stringValue (a text, the empty text, a       *)
(* number, null), a body of another kind, a body that is no object, or no  *)
(* body, next to the other fields of a log record.                         *)

BodyStrings == {"", "0", "abc", "oops", "request served", "Payment FAILED"}

BodyShapes ==
    {JObj([stringValue |-> JStr(text)]) : text \in BodyStrings}
    \cup {JObj([stringValue |-> JStr(""), intValue |-> JStr("2600")]),
          JObj([stringValue |-> JNum("2600")]),
          JObj([stringValue |-> JNum("0")]),
          JObj([stringValue |-> JNull]),
          JObj([intValue |-> JStr("2600")]),
          JObj([kvlistValue |-> JObj([values |-> JArr(<<>>)])]),
          EmptyObj,
          JStr("slow response"),
          JNull}

InitLogBody ==
    /\ now = 0
    /\ active_incidents = <<>>
    /\ pc = "idle"
    /\ \E with_body \in BOOLEAN, with_time \in BOOLEAN, with_attributes \in BOOLEAN :
       \E body \in BodyShapes, ts \in RecordTimes :
          input = JObj([k \in (IF with_body THEN {"body"} ELSE {})
                              \cup (IF with_time THEN {"timeUnixNano"} ELSE {})
                              \cup (IF with_attributes THEN {"attributes"} ELSE {}) |->
                          CASE k = "body" -> body
                            [] k = "timeUnixNano" -> ts
                            [] OTHER -> EmptyObj])
    /\ output = <<>>
    /\ local = <<>>
    /\ hist = Hist0

ParseLogBody ==
    /\ pc = "idle"
    /\ output' = _parse_log_body(input)
    /\ pc' = "_parse_log_body"
    /\ UNCHANGED <<now, active_incidents, input, local, hist>>

NextLogBody == ParseLogBody

SpecLogBody == InitLogBody /\ [][NextLogBody]_vars

-----------------------------------------------------------------------------
(* C24: the decoded body of a log record is {"message": s} whenever the    *)
(* record's body is an object whose stringValue is a string s, the empty   *)
(* string included, and is the body object itself, unchanged, when the     *)
(* body is an object that carries no string as its stringValue.            *)

CarriesString(body) ==
    /\ body.t = "object"
    /\ "stringValue" \in DOMAIN body.v
    /\ body.v.stringValue.t = "string"

C24_BodyWrapsEveryString ==
    (pc = "_parse_log_body" /\ "body" \in DOMAIN input.v) =>
        LET body == input.v.body IN
        /\ CarriesString(body) =>
               /\ DOMAIN output = {"message"}
               /\ output.message = body.v.stringValue
        /\ (body.t = "object" /\ ~CarriesString(body)) => output = body.v

-----------------------------------------------------------------------------
(* C25: analyze_realtime_data is all-or-nothing for the registry.  Every   *)
(* call appends to the registry exactly the list it returns.  When the     *)
(* metric analysis raises, that list is empty and the registry is as it    *)
(* was, whatever the logs and spans of the batch had given; otherwise it   *)
(* holds the candidates of the batch of severity medium, high or critical, *)
(* those of the logs first, then those of the spans, then those of the     *)
(* metrics.                                                                *)

\* the candidates a batch gives when no step raises, in the order of lines 75-85
BatchCandidates(batch) ==
    LET metric_result == _analyze_metrics_for_anomalies(batch.metrics, now)
        all == _analyze_logs_for_incidents(batch.logs, now)
               \o _analyze_traces_for_incidents(batch.spans, now)
               \o (IF metric_result.raised THEN <<>> ELSE metric_result.value)
        Significant(c) == c.severity \in {"medium", "high", "critical"}
    IN  SelectSeq(all, Significant)

C25_AllOrNothing ==
    [][pc' = "analyze_realtime_data" =>
        /\ active_incidents' = active_incidents \o output'
        /\ _analyze_metrics_for_anomalies(input'.metrics, now).raised =>
               /\ output' = <<>>
               /\ active_incidents' = active_incidents
        /\ ~_analyze_metrics_for_anomalies(input'.metrics, now).raised =>
               /\ Len(output') = Len(BatchCandidates(input'))
               /\ \A i \in 1..Len(output') : SameCore(output'[i], BatchCandidates(input')[i])
      ]_vars

\* a batch whose logs and spans give candidates and whose metric analysis
\* raises, after a batch that was admitted
C25_Witness ==
    /\ pc = "analyze_realtime_data"
    /\ input.metrics # <<>>
    /\ Len(BatchCandidates(input)) = 2
    /\ output = <<>>
    /\ Len(active_incidents) = 2
    /\ active_incidents[1].type = "log_errors"
    /\ active_incidents[2].type = "high_latency"

-----------------------------------------------------------------------------
(* C26: generate_analysis never raises, so no incident passes enrichment   *)
(* by its failure branch because the collaborator failed: every incident   *)
(* in the registry, and every incident an analysis returns, has an         *)
(* ai_analysis, which is the response text or the error text of            *)
(* generate_analysis, and an analyzed_at time.                             *)

Analysed(inc) ==
    /\ "ai_analysis" \in DOMAIN inc
    /\ inc.ai_analysis[1] \in {"response", "error_text"}
    /\ "analyzed_at" \in DOMAIN inc
    /\ inc.analyzed_at \in 0..now

C26_RegistryIncidentsAnalysed ==
    /\ \A i \in 1..Len(active_incidents) : Analysed(active_incidents[i])
    /\ pc = "analyze_realtime_data" => \A i \in 1..Len(output) : Analysed(output[i])

\* the registry holds an incident whose collaborator call failed, next to
\* one whose call came back
C26_Witness ==
    /\ pc = "analyze_realtime_data"
    /\ Len(active_incidents) = 2
    /\ active_incidents[1].ai_analysis[1] = "error_text"
    /\ active_incidents[2].ai_analysis[1] = "response"

-----------------------------------------------------------------------------
(* C27: the metric rules give at most one incident for a group, chosen by  *)
(* the name with the precedence cpu, memory, response_time/duration.  A    *)
(* name that contains "cpu" gives high_cpu when the last value is above 80 *)
(* and nothing otherwise, never high_memory or response_time_spike; a name *)
(* that contains "memory" but not "cpu" gives high_memory or nothing,      *)
(* never response_time_spike; and only a name with neither gives           *)
(* response_time_spike.                                                    *)

NameHasCpu == input.name \in {"cpu_usage", "cpu_memory_pressure"}

TypesOf(incidents) == {incidents[i].type : i \in 1..Len(incidents)}

C27_OneRuleByPrecedence ==
    pc = "_detect_metric_anomalies" =>
        LET last == input.values[Len(input.values)] IN
        /\ Len(output) <= 1
        /\ NameHasCpu =>
               /\ TypesOf(output) \subseteq {"high_cpu"}
               /\ Len(input.values) >= 5 => (output # <<>> <=> last > 80)
        /\ (NameHasMemory /\ ~NameHasCpu) => TypesOf(output) \subseteq {"high_memory"}
        /\ "response_time_spike" \in TypesOf(output) =>
               NameHasResponseTime /\ ~NameHasCpu /\ ~NameHasMemory
        /\ "high_memory" \in TypesOf(output) => NameHasMemory /\ ~NameHasCpu
        /\ "high_cpu" \in TypesOf(output) => NameHasCpu

\* a name with cpu and memory whose last value is above both thresholds
\* gave the one high_cpu incident
C27_Witness ==
    /\ pc = "_detect_metric_anomalies"
    /\ input.name = "cpu_memory_pressure"
    /\ input.values[Len(input.values)] = 90
    /\ Len(output) = 1
    /\ output[1].type = "high_cpu"

====
